---- MODULE Spec2Model ----
(***************************************************************************)
(* Verification model of pugz, a parallel random-access decompressor for   *)
(* gzip-wrapped DEFLATE streams of ASCII text.                             *)
(*                                                                         *)
(* The module holds several specifications over one set of variables:      *)
(*   SpecMux   BackrefMultiplexer::compress_backref_symbols                *)
(*   SpecSym   decoding into the symbolic window against a concrete one    *)
(*   SpecSync  DeflateThreadRandomAccess::sync                             *)
(*   Spec      the worker threads of libdeflate_gzip_decompress and their  *)
(*             context handoff                                             *)
(* A specification leaves the variables of the others at their idle value. *)
(***************************************************************************)
EXTENDS Integers, Sequences, FiniteSets, TLC

VARIABLES
    mx,         \* BackrefMultiplexer under test: input/output context, lkt, result
    sy,         \* symbolic/concrete window pair under test
    sc,         \* sync() under test: stream oracle, scan position, dummy window
    fn,         \* a member function under test: object state, arguments, result
    pc,         \* worker thread -> position in its thread function
    wk,         \* worker thread -> thread-local state (go() locals, windows, multiplexer)
    ch,         \* worker thread -> DeflateThreadBase handoff members
    reg,        \* coordinator state shared by the threads: deflate_threads, n_ready
    sink,       \* bytes written to STDOUT_FILENO, in write order, tagged by writer
    hist,       \* history of the handoff: what was published, what was received
    build       \* the build: "debug" (assert aborts) or "ndebug" (assert compiled out)

vars == <<mx, sy, sc, fn, pc, wk, ch, reg, sink, hist, build>>

(***************************************************************************)
(* Symbols.                                                                *)
(***************************************************************************)
\* Window<char_t>::max_value = '~', min_value = '\t'
max_value == 126
min_value == 9

\* BackrefMultiplexer: narrow_t = uint8_t
first_backref_symbol == max_value + 1
last_backref_symbol == 255
total_available_symbols == last_backref_symbol + 1

Min(S) == CHOOSE x \in S : \A y \in S : x <= y
Max(S) == CHOOSE x \in S : \A y \in S : x >= y

(***************************************************************************)
(* Window<char_t> and WindowToBuffer<Window<char_t>>.                      *)
(*                                                                         *)
(* The window buffer is mapped twice back to back (alloc_mirrored), so     *)
(* address a and address a + buffer_size are the same cell: buf is indexed *)
(* modulo buffer_size, next is the offset of the write pointer from        *)
(* _buffer.begin(), in 0 .. 2 * buffer_size.  The sizes are scaled down    *)
(* from the source (context 32768, page 4096, batch 16, match 258, cache   *)
(* line 64) and keep their relations: page_symbols >= headroom.            *)
(***************************************************************************)
context_size == 4
page_symbols == 12
buffer_size == context_size + page_symbols
batch_copymatch_size == 4
max_match_lentgh == 5
cache_line_symbols == 4
headroom == max_match_lentgh + batch_copymatch_size - 1
midpoint == buffer_size
waterline == 2 * buffer_size - headroom
\* DeflateThreadRandomAccess::buffer_virtual_size, in symbols
buffer_virtual_size == 128

Cell(a) == a % buffer_size

\* A window right after construction: zero pages, next = _midpoint, no
\* output span yet.
NewWindow ==
    [buf |-> [i \in 0..(buffer_size - 1) |-> 0], next |-> midpoint,
     in_pos |-> midpoint, out |-> <<>>, cap |-> 0]

\* Window::clear() and WindowToBuffer::clear(span): next goes back to
\* _midpoint whatever it was; the cells are not touched.
WindowClear(w) == [w EXCEPT !.next = midpoint]
WindowToBufferClear(w, capacity) ==
    [w EXCEPT !.next = midpoint, !.in_pos = midpoint, !.out = <<>>, !.cap = capacity]

available(w) == waterline - w.next

current_context(w) ==
    [i \in 1..context_size |-> w.buf[Cell(w.next - context_size + i - 1)]]

\* "for (auto& c : window.current_context()) c = ..." : overwrite the context
SetContext(w, ctx) ==
    [w EXCEPT !.buf = [a \in 0..(buffer_size - 1) |->
        IF \E i \in 1..context_size : Cell(w.next - context_size + i - 1) = a
        THEN ctx[CHOOSE i \in 1..context_size : Cell(w.next - context_size + i - 1) = a]
        ELSE w.buf[a]]]

\* Window::push
push(w, c) ==
    IF c > max_value \/ c < min_value
    THEN [ok |-> FALSE, w |-> w]
    ELSE [ok |-> TRUE,
          w |-> [w EXCEPT !.buf = [@ EXCEPT ![Cell(w.next)] = c], !.next = @ + 1]]

\* *dst++ = *src++, n times, each read seeing the writes before it
RECURSIVE CopySymbols(_, _, _, _)
CopySymbols(buf, dst, src, n) ==
    IF n = 0 THEN buf
    ELSE CopySymbols([buf EXCEPT ![Cell(dst)] = buf[Cell(src)]], dst + 1, src + 1, n - 1)

\* memcpy(dst, src, batch_copymatch_size): all reads, then all writes
CopyBatch(buf, dst, src) ==
    [a \in 0..(buffer_size - 1) |->
        IF \E j \in 0..(batch_copymatch_size - 1) : Cell(dst + j) = a
        THEN buf[Cell(src + (CHOOSE j \in 0..(batch_copymatch_size - 1) : Cell(dst + j) = a))]
        ELSE buf[a]]

\* do { memcpy(dst, src, batch); dst += batch; src += batch; } while (dst < dst_end)
RECURSIVE CopyBatches(_, _, _, _)
CopyBatches(buf, dst, src, dst_end) ==
    LET b == CopyBatch(buf, dst, src)
    IN  IF dst + batch_copymatch_size < dst_end
        THEN CopyBatches(b, dst + batch_copymatch_size, src + batch_copymatch_size, dst_end)
        ELSE b

\* do { memcpy(dst, &repeats, batch); dst += batch; } while (dst < dst_end),
\* repeats being the period-long pattern read at src broadcast over a batch
RECURSIVE StoreRepeats(_, _, _, _)
StoreRepeats(buf, dst, pattern, dst_end) ==
    LET b == [a \in 0..(buffer_size - 1) |->
                IF \E j \in 0..(batch_copymatch_size - 1) : Cell(dst + j) = a
                THEN pattern[((CHOOSE j \in 0..(batch_copymatch_size - 1) : Cell(dst + j) = a)
                              % Len(pattern)) + 1]
                ELSE buf[a]]
    IN  IF dst + batch_copymatch_size < dst_end
        THEN StoreRepeats(b, dst + batch_copymatch_size, pattern, dst_end)
        ELSE b

\* Mutant of CopyUniversal: the overlapping copy done as whole-batch memcpy.
CopyUniversalAsMemcpy(buf, dst, src, dst_end) == CopyBatches(buf, dst, src, dst_end)

\* do { repeat<batch>(*dst++ = *src++); } while (dst < dst_end)
RECURSIVE CopyUniversal(_, _, _, _)
CopyUniversal(buf, dst, src, dst_end) ==
    LET b == CopySymbols(buf, dst, src, batch_copymatch_size)
    IN  IF dst + batch_copymatch_size < dst_end
        THEN CopyUniversal(b, dst + batch_copymatch_size, src + batch_copymatch_size, dst_end)
        ELSE b

\* Window::copy_match
copy_match(w, length, offset) ==
    IF offset > context_size
    THEN [ok |-> FALSE, w |-> w]
    ELSE LET dst == w.next
             dst_end == w.next + length
             src == w.next - offset
             b == IF offset >= batch_copymatch_size
                  THEN CopyBatches(w.buf, dst, src, dst_end)
                  ELSE IF offset = 1
                  THEN StoreRepeats(w.buf, dst, <<w.buf[Cell(src)]>>, dst_end)
                  ELSE IF offset # 2
                  THEN CopyUniversal(w.buf, dst, src, dst_end)
                  ELSE StoreRepeats(w.buf, dst, <<w.buf[Cell(src)], w.buf[Cell(src + 1)]>>,
                                    dst_end)
         IN  [ok |-> TRUE, w |-> [w EXCEPT !.buf = b, !.next = dst_end]]

\* Mutant of WindowFlush: the write pointer put back at _midpoint.
WindowFlushToMidpoint(w) == [w EXCEPT !.next = midpoint]

\* Window::flush: the mirrored mapping makes moving the context a no-op
WindowFlush(w) == [w EXCEPT !.next = @ - buffer_size]

RoundUp(x, m) == ((x + m - 1) \div m) * m

Cells(w, from, to) == [i \in 1..(to - from) |-> w.buf[Cell(from + i - 1)]]

\* WindowToBuffer::flush; returns 0 and changes nothing when the output span
\* is too small.
WindowToBufferFlush(w) ==
    LET src_end == RoundUp(w.next, cache_line_symbols)
        sz == src_end - w.in_pos
    IN  IF sz > w.cap THEN w
        ELSE [w EXCEPT !.out = @ \o Cells(w, w.in_pos, src_end),
                       !.cap = @ - sz,
                       !.in_pos = src_end - buffer_size,
                       !.next = @ - buffer_size]

\* WindowToBuffer::final_flush: ok = FALSE is the empty span returned when
\* the output span is too small; rest is the space left after rounding the
\* output pointer up to a cache line.
final_flush(w) ==
    LET sz == w.next - w.in_pos     \* size_t: a negative difference wraps to a huge value
    IN  IF sz < 0 \/ w.cap < sz THEN [ok |-> FALSE, w |-> w, rest |-> 0]
        ELSE [ok |-> TRUE,
              w |-> [w EXCEPT !.out = @ \o Cells(w, w.in_pos, w.next), !.cap = @ - sz],
              rest |-> LET used == Len(w.out) + sz
                       IN  Max({0, w.cap + Len(w.out) - RoundUp(used, cache_line_symbols)})]

(***************************************************************************)
(* DummyWindow: counts symbols, checks literals and offsets, stores        *)
(* nothing.  Its state is _size.                                           *)
(***************************************************************************)
DummyPush(size, c) == [ok |-> (c <= max_value /\ c >= min_value), size |-> size + 1]
DummyCopyMatch(size, length, offset) == [ok |-> offset <= context_size, size |-> size + length]

\* Mutant of DummyWindow::clear: the count survives the clear.
DummyClearKeeps(size) == size

\* DummyWindow::clear
DummyClear(size) == 0

(***************************************************************************)
(* Blocks.  The Huffman layer is abstracted: a bit position of the stream  *)
(* carries the block that do_block decodes when started there, as          *)
(*   bfinal  the bit at that position (BFINAL of a block starting there)   *)
(*   err     "" or the error the block header produces                     *)
(*   ops     the literals and matches the block's codewords decode to      *)
(*   len     the number of bits the block occupies                         *)
(* do_block runs the source's loop over these symbols against a window.    *)
(***************************************************************************)
Lit(c) == [k |-> "lit", c |-> c, len |-> 0, off |-> 0]
Match(l, o) == [k |-> "match", c |-> 0, len |-> l, off |-> o]

\* The Huffman loop of do_block on a Window or WindowToBuffer (tb).
RECURSIVE HuffmanLoop(_, _, _, _)
HuffmanLoop(w, ops, i, tb) ==
    IF i > Len(ops) THEN [res |-> "SUCCESS", w |-> w]
    ELSE LET op == ops[i]
             need == IF op.k = "lit" THEN 1 ELSE op.len
             \* "if (available() == 0) flush()" / "if (length - 1 >= available()) flush()"
             Stored(r) ==
                 IF ~r.ok
                 THEN [res |-> IF op.k = "lit" THEN "INVALID_LITERAL" ELSE "INVALID_MATCH",
                       w |-> r.w]
                 ELSE HuffmanLoop(r.w, ops, i + 1, tb)
             Store(w1) ==
                 IF need > available(w1) THEN [res |-> "ASSERT", w |-> w1]
                 ELSE Stored(IF op.k = "lit" THEN push(w1, op.c)
                             ELSE copy_match(w1, op.len, op.off))
         IN  Store(IF need - 1 >= available(w)
                   THEN (IF tb THEN WindowToBufferFlush(w) ELSE WindowFlush(w))
                   ELSE w)

\* The Huffman loop of do_block on the DummyWindow (available() is constant).
RECURSIVE DummyHuffmanLoop(_, _, _)
DummyHuffmanLoop(size, ops, i) ==
    IF i > Len(ops) THEN [res |-> "SUCCESS", size |-> size]
    ELSE LET op == ops[i]
             r == IF op.k = "lit" THEN DummyPush(size, op.c)
                  ELSE DummyCopyMatch(size, op.len, op.off)
         IN  IF ~r.ok
             THEN [res |-> IF op.k = "lit" THEN "INVALID_LITERAL" ELSE "INVALID_MATCH",
                   size |-> r.size]
             ELSE DummyHuffmanLoop(r.size, ops, i + 1)

\* What the stream holds at bit position p; past the end, nothing parses.
NoBlock == [bfinal |-> 0, err |-> "NOT_ENOUGH_INPUT", ops |-> <<>>, len |-> 0]
BlockAt(stream, p) == IF p \in DOMAIN stream.at THEN stream.at[p] ELSE NoBlock

BlockResult(d, loopres) ==
    IF d.err # "" THEN d.err
    ELSE IF loopres # "SUCCESS" THEN loopres
    ELSE IF d.bfinal = 1 THEN "LAST_BLOCK" ELSE "SUCCESS"

\* do_block(window) with the stream at bit position pos.  On an error the
\* position is wherever the parse gave up (callers never rely on it).
do_block(stream, pos, w, tb) ==
    LET d == BlockAt(stream, pos)
        Decoded(l) == [res |-> BlockResult(d, l.res), w |-> l.w, pos |-> pos + d.len]
    IN  Decoded(IF d.err # "" THEN [res |-> d.err, w |-> w]
                ELSE HuffmanLoop(w, d.ops, 1, tb))

\* do_block(dummy_win, ShouldFail{})
do_block_dummy(stream, pos, size) ==
    LET d == BlockAt(stream, pos)
        l == IF d.err # "" THEN [res |-> d.err, size |-> size]
             ELSE DummyHuffmanLoop(size, d.ops, 1)
    IN  [res |-> BlockResult(d, l.res), size |-> l.size, pos |-> pos + d.len]

(***************************************************************************)
(* DeflateThreadRandomAccess::sync.                                        *)
(*                                                                         *)
(* The scan state: pos (the loop variable), in_pos (the stream's bit       *)
(* position), size (dummy_win._size), phase "scan" / "ret", ret (the value *)
(* returned) and stop (the position handed to _up_stream->set_end_block,   *)
(* -1 when none was).                                                      *)
(***************************************************************************)
StreamSizeBits(stream) == 8 * stream.size

\* InputStream::set_position_bits(p): the stream is repositioned at bit p;
\* the result tells whether p lies inside the input.
set_position_bits(stream, p) == [ok |-> p < StreamSizeBits(stream), pos |-> p]

SyncStart(stream, skip, max_bits_skip) ==
    [pos |-> skip, in_pos |-> set_position_bits(stream, skip).pos,
     max_pos |-> skip + (IF StreamSizeBits(stream) < max_bits_skip
                         THEN StreamSizeBits(stream) ELSE max_bits_skip),
     size |-> 0, phase |-> "scan", ret |-> 0, stop |-> -1]

\* One evaluation of the loop condition and, if it holds, of the loop body.
SyncIteration(stream, st, min_block_size) ==
    IF ~(st.pos < st.max_pos)
    THEN [st EXCEPT !.phase = "ret", !.ret = StreamSizeBits(stream)]
    ELSE IF BlockAt(stream, st.in_pos).bfinal = 1
    THEN \* remove_bits(1); ensure_bits<1>(); continue
         [st EXCEPT !.pos = @ + 1, !.in_pos = @ + 1]
    ELSE LET r == do_block_dummy(stream, st.in_pos, st.size)
         IN  IF r.res = "SUCCESS" /\ r.size >= min_block_size
             THEN [st EXCEPT !.in_pos = set_position_bits(stream, st.pos).pos,
                             !.size = r.size, !.stop = st.pos,
                             !.phase = "ret", !.ret = st.pos]
             ELSE LET sp == set_position_bits(stream, st.pos + 1)
                  IN  IF ~sp.ok
                      THEN [st EXCEPT !.size = DummyClear(r.size), !.in_pos = sp.pos,
                                      !.phase = "ret", !.ret = StreamSizeBits(stream)]
                      ELSE [st EXCEPT !.size = DummyClear(r.size), !.in_pos = sp.pos,
                                      !.pos = @ + 1]

RECURSIVE SyncLoop(_, _, _)
SyncLoop(stream, st, min_block_size) ==
    IF st.phase = "ret" THEN st
    ELSE SyncLoop(stream, SyncIteration(stream, st, min_block_size), min_block_size)

\* sync(skip, max_bits_skip, min_block_size)
sync(stream, skip, max_bits_skip, min_block_size) ==
    SyncLoop(stream, SyncStart(stream, skip, max_bits_skip), min_block_size)

(***************************************************************************)
(* BackrefMultiplexer.                                                     *)
(*                                                                         *)
(* lkt is the member `unique_span<wide_t> lkt` (8bits code -> 16bits       *)
(* offset).  The constructor zeroes entries 0..first_backref_symbol-1; the *)
(* other entries are whatever the allocation holds.                        *)
(***************************************************************************)
NewLkt(garbage) ==
    [i \in 0..(total_available_symbols - 1) |->
        IF i < first_backref_symbol THEN 0 ELSE garbage]

\* Linear scan "for (unsigned i = first_backref_symbol; i < next_symbol; i++)
\* if (lkt[i] == c_from) { c_to = i; break; }", c_to = 0 when nothing is found.
ScanLkt(lkt, next_symbol, c_from) ==
    LET hits == {i \in first_backref_symbol..(next_symbol - 1) : lkt[i] = c_from}
    IN  IF hits = {} THEN 0 ELSE Min(hits)

\* Allocation "c_to = next_symbol; lkt[next_symbol++] = c_from": mutant that
\* records the offset one too high.
AllocSymbolOffByOne(st, c_from) ==
    [st EXCEPT !.lkt = [@ EXCEPT ![st.next_symbol] = c_from + 1],
               !.out = Append(@, st.next_symbol),
               !.next_symbol = (st.next_symbol + 1) % total_available_symbols]

\* next_symbol is a narrow_t: the increment wraps from 255 to 0.
AllocSymbol(st, c_from) ==
    [st EXCEPT !.lkt = [@ EXCEPT ![st.next_symbol] = c_from],
               !.out = Append(@, st.next_symbol),
               !.next_symbol = (st.next_symbol + 1) % total_available_symbols]

\* One iteration of the loop over input_context.current_context().
\* st = [lkt, next_symbol, out, ret]; ret = "run" while the loop goes on.
CompressSymbol(st, sym) ==
    IF sym < first_backref_symbol
    THEN [st EXCEPT !.out = Append(@, sym)]
    ELSE LET c_from == sym - first_backref_symbol
             c_to == ScanLkt(st.lkt, st.next_symbol, c_from)
         IN  IF c_to # 0
             THEN [st EXCEPT !.out = Append(@, c_to)]
             ELSE IF st.next_symbol = 0
                  THEN [st EXCEPT !.ret = "false"]
                  ELSE AllocSymbol(st, c_from)

RECURSIVE CompressLoop(_, _, _)
CompressLoop(st, input, i) ==
    IF i > Len(input) \/ st.ret # "run" THEN st
    ELSE CompressLoop(CompressSymbol(st, input[i]), input, i + 1)

\* compress_backref_symbols(input_context, output_context) on a multiplexer
\* whose table is lkt.  Result: ret ("true"/"false"), the table, the symbols
\* written to output_context (a prefix when ret = "false"), next_symbol at
\* the return and _allocated_symbols (unchanged, prev, on failure).
compress_backref_symbols(lkt, prevAllocated, input) ==
    LET st == CompressLoop([lkt |-> lkt, next_symbol |-> first_backref_symbol,
                            out |-> <<>>, ret |-> "run"], input, 1)
    IN  IF st.ret = "false"
        THEN [ret |-> "false", lkt |-> st.lkt, out |-> st.out,
              next_symbol |-> st.next_symbol, allocated |-> prevAllocated]
        ELSE [ret |-> "true", lkt |-> st.lkt, out |-> st.out,
              next_symbol |-> st.next_symbol,
              allocated |-> IF st.next_symbol # 0 THEN st.next_symbol
                            ELSE total_available_symbols]


(***************************************************************************)
(* SpecMux: compress_backref_symbols on contexts drawn from a family that  *)
(* reaches the full table: n distinct offsets, then a short tail of        *)
(* resolved symbols, repeated offsets and fresh offsets.  A multiplexer is *)
(* reused from chunk to chunk, so a second call runs on the table the      *)
(* first one left.                                                         *)
(***************************************************************************)
MaxTail == 2
MaxCalls == 2

SeqsUpTo(S, n) == UNION {[1..k -> S] : k \in 0..n}

MuxPrefix(n, b) == [j \in 1..n |-> first_backref_symbol + b + (j - 1)]

MuxTailSyms(n, b) ==
    {65, first_backref_symbol + b, first_backref_symbol + b + n,
     first_backref_symbol + b + n + 1}
    \cup (IF n > 0 THEN {first_backref_symbol + b + n - 1} ELSE {})

MuxInputsOf(ns) ==
    UNION {{MuxPrefix(nb[1], nb[2]) \o t : t \in SeqsUpTo(MuxTailSyms(nb[1], nb[2]), MaxTail)}
           : nb \in ns \X {0, 3}}

MuxInputs == MuxInputsOf({0, 1, 2, 127, 128, 129})
MuxShortInputs == MuxInputsOf({0, 1})

IdleMx == [in |-> <<>>, lkt |-> <<>>, allocated |-> 0, out |-> <<>>,
           ret |-> "idle", calls |-> 0, next_symbol |-> 0]
IdleSy == [phase |-> "idle"]
IdleSc == [phase |-> "idle"]
IdleFn == [phase |-> "idle"]

OthersIdleMux ==
    /\ sy = IdleSy /\ sc = IdleSc
    /\ pc = <<>> /\ wk = <<>> /\ ch = <<>> /\ reg = <<>>
    /\ sink = <<>> /\ hist = <<>> /\ build = "none" /\ fn = IdleFn

InitMux ==
    /\ mx \in {[in |-> i, lkt |-> NewLkt(g), allocated |-> 0, out |-> <<>>,
                 ret |-> "none", calls |-> 0, next_symbol |-> first_backref_symbol]
                : i \in MuxInputs, g \in {0, 3}}
    /\ OthersIdleMux

\* multiplexer.compress_backref_symbols(wide_window, narrow_window)
MuxCompress ==
    /\ mx.ret = "none"
    /\ LET r == compress_backref_symbols(mx.lkt, mx.allocated, mx.in)
       IN  mx' = [mx EXCEPT !.lkt = r.lkt, !.out = r.out, !.ret = r.ret,
                            !.allocated = r.allocated, !.next_symbol = r.next_symbol,
                            !.calls = @ + 1]
    /\ UNCHANGED <<sy, sc, pc, wk, ch, reg, sink, hist, build, fn>>

\* The next chunk: the same multiplexer object compresses another context.
MuxAgain ==
    /\ mx.ret \in {"true", "false"}
    /\ mx.calls < MaxCalls
    /\ \E i \in MuxShortInputs :
         mx' = [mx EXCEPT !.in = i, !.out = <<>>, !.ret = "none"]
    /\ UNCHANGED <<sy, sc, pc, wk, ch, reg, sink, hist, build, fn>>

NextMux == MuxCompress \/ MuxAgain

SpecMux == InitMux /\ [][NextMux]_vars

(***************************************************************************)
(* C8, C9: properties of compress_backref_symbols.                         *)
(***************************************************************************)
MuxOffsetsBefore(k) == {mx.in[j] : j \in {j \in 1..(k - 1) : mx.in[j] >= first_backref_symbol}}

\* C8: when compress_backref_symbols returns true, at every position of the
\* context a wide symbol below 127 is copied unchanged, and any other wide
\* symbol is replaced by a codepoint c >= 127 whose table entry lkt[c] is the
\* wide symbol's unresolved offset (wide symbol minus 127).
C8_CompressCorrect ==
    mx.ret = "true" =>
        /\ Len(mx.out) = Len(mx.in)
        /\ \A i \in 1..Len(mx.in) :
              IF mx.in[i] < first_backref_symbol
              THEN mx.out[i] = mx.in[i]
              ELSE /\ mx.out[i] >= first_backref_symbol
                   /\ mx.out[i] <= last_backref_symbol
                   /\ mx.lkt[mx.out[i]] = mx.in[i] - first_backref_symbol

\* A successful compression that filled the whole table (129 codepoints) on
\* a context holding resolved symbols too, on a reused multiplexer.
C8_Witness ==
    /\ mx.ret = "true"
    /\ mx.allocated = total_available_symbols
    /\ \E i \in 1..Len(mx.in) : mx.in[i] < first_backref_symbol
    /\ \E i \in 1..Len(mx.in) : mx.in[i] >= first_backref_symbol

C8_WitnessReused ==
    /\ mx.ret = "true" /\ mx.calls = 2
    /\ \E i \in 1..Len(mx.in) : mx.in[i] >= first_backref_symbol

\* C9: compress_backref_symbols returns false only at a symbol whose offset
\* has no codepoint yet while all codepoints 127..255 are allocated; a symbol
\* whose offset already has a codepoint is mapped to that codepoint, also
\* once the last codepoint is handed out; distinct offsets get distinct
\* codepoints.
C9_FalseOnlyWhenFullAndFresh ==
    /\ mx.ret = "false" =>
          LET k == Len(mx.out) + 1
          IN  /\ mx.in[k] \notin MuxOffsetsBefore(k)
              /\ Cardinality(MuxOffsetsBefore(k)) =
                     total_available_symbols - first_backref_symbol
    /\ mx.ret \in {"true", "false"} =>
          \A i, j \in 1..Len(mx.out) :
              (mx.in[i] >= first_backref_symbol /\ mx.in[j] >= first_backref_symbol)
                  => ((mx.in[i] = mx.in[j]) <=> (mx.out[i] = mx.out[j]))

(***************************************************************************)
(* SpecSym: the same symbols decoded into a window seeded with symbolic    *)
(* back-reference codes (go(), wide_window) and into a window seeded with  *)
(* the true context (set_initial_context).                                 *)
(***************************************************************************)
MaxOps == 4

SymOps == {Lit(65), Lit(10), Match(3, 1), Match(5, 2), Match(4, 3), Match(5, 4)}
SymContexts == [1..context_size -> {66, 67}]

\* Mutant of the seeding loop: sym starts one too high.
SeedSymbolicOffByOne(w) ==
    SetContext(w, [i \in 1..context_size |-> max_value + 1 + i])

\* "uint16_t sym = wide_window.max_value + 1;
\*  for (auto& c : wide_window.current_context()) c = sym++;"
SeedSymbolic(w) ==
    SetContext(w, [i \in 1..context_size |-> max_value + 1 + (i - 1)])

\* set_initial_context: the true context copied over current_context()
SeedConcrete(w, ctx) == SetContext(w, ctx)

OthersIdleSym ==
    /\ mx = IdleMx /\ sc = IdleSc
    /\ pc = <<>> /\ wk = <<>> /\ ch = <<>> /\ reg = <<>>
    /\ sink = <<>> /\ hist = <<>> /\ build = "none" /\ fn = IdleFn

InitSym ==
    /\ sy \in {[phase |-> "decode", ctx |-> c, n |-> 0, flushes |-> 0,
                 wide |-> SeedSymbolic(WindowToBufferClear(NewWindow, buffer_virtual_size)),
                 conc |-> SeedConcrete(WindowToBufferClear(NewWindow, buffer_virtual_size), c),
                 wres |-> "SUCCESS", cres |-> "SUCCESS"] : c \in SymContexts}
    /\ OthersIdleSym

\* The next codeword of the chunk decoded by do_block's loop, in each window.
SymDecode ==
    /\ sy.phase = "decode"
    /\ sy.n < MaxOps
    /\ \E op \in SymOps :
         LET rw == HuffmanLoop(sy.wide, <<op>>, 1, TRUE)
             rc == HuffmanLoop(sy.conc, <<op>>, 1, TRUE)
         IN  sy' = [sy EXCEPT !.wide = rw.w, !.conc = rc.w, !.n = @ + 1,
                              !.wres = rw.res, !.cres = rc.res,
                              !.flushes = @ + (IF Len(rw.w.out) > Len(sy.wide.out)
                                               THEN 1 ELSE 0),
                              !.phase = IF rw.res = "SUCCESS" /\ rc.res = "SUCCESS"
                                        THEN "decode" ELSE "done"]
    /\ UNCHANGED <<mx, sc, pc, wk, ch, reg, sink, hist, build, fn>>

\* The end of the chunk: final_flush of each window.
SymFinalFlush ==
    /\ sy.phase = "decode"
    /\ LET fw == final_flush(sy.wide)
           fc == final_flush(sy.conc)
       IN  sy' = [sy EXCEPT !.wide = fw.w, !.conc = fc.w, !.phase = "done",
                            !.wres = IF fw.ok THEN "SUCCESS" ELSE "FLUSH_FAIL",
                            !.cres = IF fc.ok THEN "SUCCESS" ELSE "FLUSH_FAIL"]
    /\ UNCHANGED <<mx, sc, pc, wk, ch, reg, sink, hist, build, fn>>

NextSym == SymDecode \/ SymFinalFlush

SpecSym == InitSym /\ [][NextSym]_vars

\* Code max_value + 1 + k stands for symbol k of the context.
Resolve(ctx, c) ==
    IF c > max_value
    THEN (IF c - max_value \in DOMAIN ctx THEN ctx[c - max_value] ELSE c)
    ELSE c

ResolveAll(ctx, f) == [i \in DOMAIN f |-> Resolve(ctx, f[i])]

SyncVar == 4
SyncBytes == 1

\* BFINAL set: skipped without parsing
CandFinal == [bfinal |-> 1, err |-> "", ops |-> <<Lit(65), Match(3, 1)>>, len |-> 9]
\* header that does not parse
CandBadType == [bfinal |-> 0, err |-> "INVALID_BLOCK_TYPE", ops |-> <<>>, len |-> 3]
\* parses, one symbol
CandSmall == [bfinal |-> 0, err |-> "", ops |-> <<Lit(65)>>, len |-> 5]
\* parses, four symbols
CandBig == [bfinal |-> 0, err |-> "", ops |-> <<Lit(65), Match(3, 1)>>, len |-> 9]
\* two symbols, then a literal outside the accepted range
CandBadLiteral == [bfinal |-> 0, err |-> "", ops |-> <<Lit(65), Lit(66), Lit(200)>>, len |-> 7]

Candidates == {CandFinal, CandBadType, CandSmall, CandBig, CandBadLiteral}

SyncTail(p) ==
    IF p % 4 = 0 THEN CandSmall
    ELSE IF p % 4 = 1 THEN CandBig
    ELSE IF p % 4 = 2 THEN CandFinal
    ELSE CandBadType

SyncStreams ==
    {[size |-> SyncBytes,
      at |-> [p \in 0..(8 * SyncBytes - 1) |-> IF p < SyncVar THEN f[p] ELSE SyncTail(p)]]
     : f \in [0..(SyncVar - 1) -> Candidates]}

OthersIdleSync ==
    /\ mx = IdleMx /\ sy = IdleSy
    /\ pc = <<>> /\ wk = <<>> /\ ch = <<>> /\ reg = <<>>
    /\ sink = <<>> /\ hist = <<>> /\ build = "none" /\ fn = IdleFn

InitSync ==
    /\ sc \in {[phase |-> "call", stream |-> s, skip |-> k, max_bits_skip |-> b,
                 min_block_size |-> m, st |-> SyncStart(s, k, b)]
                : s \in SyncStreams, k \in 0..2, b \in {2, 4, 9}, m \in {1, 2, 4}}
    /\ OthersIdleSync

\* One turn of the for loop of sync().
SyncScan ==
    /\ sc.phase = "call"
    /\ sc.st.phase = "scan"
    /\ sc' = [sc EXCEPT !.st = SyncIteration(sc.stream, sc.st, sc.min_block_size)]
    /\ UNCHANGED <<mx, sy, pc, wk, ch, reg, sink, hist, build, fn>>

NextSync == SyncScan

SpecSync == InitSync /\ [][NextSync]_vars

\* The acceptance conditions at bit position q.
SyncAccepts(q) ==
    /\ q < StreamSizeBits(sc.stream)
    /\ BlockAt(sc.stream, q).bfinal = 0
    /\ LET r == do_block_dummy(sc.stream, q, 0)
       IN  r.res = "SUCCESS" /\ r.size >= sc.min_block_size

SyncBudget ==
    {q \in sc.skip..(sc.st.max_pos - 1) : q < StreamSizeBits(sc.stream)}

\* C10: sync(skip) returns the smallest position p >= skip inside the scan
\* budget whose BFINAL bit is 0 and whose block parses to SUCCESS with at
\* least min_block_size symbols; no position of [skip, p) is acceptable; the
\* stream is left positioned at p; the failure value is returned only when
\* no position of the budget is acceptable.
C10_SyncReturnsEarliest ==
    (sc.phase = "call" /\ sc.st.phase = "ret") =>
        IF sc.st.ret < StreamSizeBits(sc.stream)
        THEN /\ sc.st.ret \in SyncBudget
             /\ SyncAccepts(sc.st.ret)
             /\ \A q \in sc.skip..(sc.st.ret - 1) : ~SyncAccepts(q)
             /\ sc.st.in_pos = sc.st.ret
        ELSE \A q \in SyncBudget : ~SyncAccepts(q)

\* A scan that returned a position after stepping over a set BFINAL bit, a
\* block that parsed but was too small, and a block that failed after
\* decoding symbols.
C10_Witness ==
    /\ sc.phase = "call" /\ sc.st.phase = "ret"
    /\ sc.st.ret < StreamSizeBits(sc.stream)
    /\ \E q \in sc.skip..(sc.st.ret - 1) : BlockAt(sc.stream, q).bfinal = 1
    /\ \E q \in sc.skip..(sc.st.ret - 1) : BlockAt(sc.stream, q) = CandSmall
    /\ \E q \in sc.skip..(sc.st.ret - 1) : BlockAt(sc.stream, q) = CandBadLiteral

\* The block that follows the block starting at q parses (or there is no
\* input left for one).
SyncFollowerParses(q) ==
    LET next == q + BlockAt(sc.stream, q).len
    IN  \/ next >= StreamSizeBits(sc.stream)
        \/ do_block_dummy(sc.stream, next, 0).res \in {"SUCCESS", "LAST_BLOCK"}

\* C11: sync returns a position, and hands it to the upstream worker as its
\* stop position, only when the block after the candidate block has been
\* parsed successfully as well (or the input ends there); a candidate whose
\* block parses but whose following block is invalid is not accepted.
C11_AcceptsOnlyConfirmed ==
    (sc.phase = "call" /\ sc.st.phase = "ret" /\ sc.st.stop # 0 - 1) =>
        SyncFollowerParses(sc.st.stop)

(***************************************************************************)
(* libdeflate_gzip_decompress: the input and the sizes derived from it.    *)
(* Byte counts are scaled down from the source (2 MiB of input per thread, *)
(* 32 MiB of section per thread, 4 MiB more for the first chunk).          *)
(***************************************************************************)
\* the nthreads argument and the size of the DEFLATE stream, in bytes
nthreads_arg == reg.nthreads_arg
in_size == reg.stream.size
gzip_overhead == 18
in_nbytes == in_size + gzip_overhead

thread_min_bytes == 8
thread_section_bytes == 4
first_chunk_delta == 2

\* nthreads = std::min(1 + unsigned(in_nbytes >> 21), nthreads)
nthreads == Min({1 + (in_nbytes \div thread_min_bytes), nthreads_arg})

max_section_size == nthreads * thread_section_bytes
n_sections ==
    LET section_size0 == Min({max_section_size, in_size})
    IN  (in_size + section_size0 - 1) \div section_size0
section_size == in_size \div n_sections

chunk_size0 == section_size \div nthreads
first_chunk_size == chunk_size0 + first_chunk_delta
chunk_size == (nthreads * chunk_size0 - first_chunk_size) \div (nthreads - 1)

chunk_offset_start(chunk_idx) == first_chunk_size + chunk_size * (chunk_idx - 1)
chunk_offset_stop(chunk_idx) == first_chunk_size + chunk_size * chunk_idx

Workers == 0..(nthreads - 1)
RandomAccess == 1..(nthreads - 1)
LastWorker == nthreads - 1

(***************************************************************************)
(* The DEFLATE streams the workers are run on: blocks back to back, block  *)
(* j of lens[j] bits, the last one with BFINAL set and ending with the     *)
(* stream.  A bit position inside a block parses to nothing.  The inputs   *)
(* are three threads on a stream of one section, two threads on a stream   *)
(* of two sections, two threads on a stream whose second chunk holds no    *)
(* block start, three threads on a stream whose middle chunk holds a       *)
(* single block, and three threads on a stream of 11 bytes, which the      *)
(* chunk sizes do not divide: its last chunk ends at byte 9.  Every chunk  *)
(* of a stream starts inside a block.                                      *)
(***************************************************************************)
Inputs ==
    {[nthreads |-> 3, lens |-> <<50, 12, 12, 8, 8, 6>>],
     [nthreads |-> 2, lens |-> <<50, 6, 6, 6, 46, 5, 5, 4>>],
     [nthreads |-> 2, lens |-> <<40, 24>>],
     [nthreads |-> 3, lens |-> <<50, 24, 8, 8, 6>>],
     [nthreads |-> 3, lens |-> <<42, 8, 8, 8, 8, 8, 6>>]}

RECURSIVE BlockStart(_, _)
BlockStart(lens, j) == IF j = 1 THEN 0 ELSE BlockStart(lens, j - 1) + lens[j - 1]

BlockOps(j) ==
    LET a == 65 + (j % 26)
    IN  IF j % 4 = 1 THEN <<Lit(a), Lit(a + 1), Match(3, 2)>>
        ELSE IF j % 4 = 2 THEN <<Lit(a), Match(3, 1)>>
        ELSE IF j % 4 = 3 THEN <<Match(4, 2), Lit(a)>>
        ELSE <<Match(3, 4)>>

StreamBlock(lens, j) ==
    [bfinal |-> IF j = Len(lens) THEN 1 ELSE 0, err |-> "", ops |-> BlockOps(j),
     len |-> lens[j]]

InsideBlock(p) ==
    [bfinal |-> p % 2, err |-> "INVALID_BLOCK_TYPE", ops |-> <<>>, len |-> 3]

StreamOf(lens) ==
    [size |-> BlockStart(lens, Len(lens) + 1) \div 8,
     nblocks |-> Len(lens),
     at |-> [p \in 0..(BlockStart(lens, Len(lens) + 1) - 1) |->
                IF \E j \in 1..Len(lens) : BlockStart(lens, j) = p
                THEN StreamBlock(lens, CHOOSE j \in 1..Len(lens) : BlockStart(lens, j) = p)
                ELSE InsideBlock(p)]]

\* the input buffer
TheStream == reg.stream

\* What DEFLATE says the symbols decode to: a literal is appended, a match
\* copies length symbols from offset symbols back, one by one.
RECURSIVE RefMatch(_, _, _)
RefMatch(out, length, offset) ==
    IF length = 0 THEN out
    ELSE RefMatch(Append(out, out[Len(out) + 1 - offset]), length - 1, offset)

RECURSIVE RefOps(_, _, _)
RefOps(out, ops, i) ==
    IF i > Len(ops) THEN out
    ELSE RefOps(IF ops[i].k = "lit" THEN Append(out, ops[i].c)
                ELSE RefMatch(out, ops[i].len, ops[i].off), ops, i + 1)

RECURSIVE RefBlocks(_, _)
RefBlocks(out, j) ==
    IF j > TheStream.nblocks THEN out ELSE RefBlocks(RefOps(out, BlockOps(j), 1), j + 1)

SequentialOutput == RefBlocks(<<>>, 1)

(***************************************************************************)
(* DeflateThreadBase: the handoff members of a worker.                     *)
(*   context     the posted span, as the offset of its first symbol in the *)
(*               poster's window buffer; NoSpan when empty                 *)
(*   lock        the thread that holds _mut beyond one call (the           *)
(*               locked_span returned by get_context), NoThread when free  *)
(***************************************************************************)
unset_stop_pos == 1000000
NoSpan == 0 - 1
NoThread == 0 - 1

NewChannel ==
    [context |-> NoSpan, stoped_at |-> unset_stop_pos, borrowed |-> FALSE,
     stop_after |-> unset_stop_pos, lock |-> NoThread]

\* get_context can return: _mut is free and _context is not empty
CanGetContext(c) == c.lock = NoThread /\ c.context # NoSpan

\* Mutant of get_context: the posted span is left in place.
get_context_no_swap(c, by) == [c EXCEPT !.borrowed = FALSE, !.lock = by]

\* get_context: the span is swapped out, the borrow flag cleared, and the
\* lock moves into the returned locked_span
get_context(c, by) == [c EXCEPT !.context = NoSpan, !.borrowed = FALSE, !.lock = by]

\* the locked_span goes out of scope: _mut is released
release_locked_span(c) == [c EXCEPT !.lock = NoThread]

\* set_end_block
set_end_block(c, synced_pos) == [c EXCEPT !.stop_after = synced_pos]

\* Mutant of wait_for_context_borrow: the flag is read without taking _mut.
borrow_returned_unlocked(c) == ~c.borrowed

\* wait_for_context_borrow returns: _mut is free and _borrowed_context is false
wait_for_context_borrow(c) == c.lock = NoThread /\ ~c.borrowed

\* set_context under _mut
set_context(c, span, position_bits) ==
    [c EXCEPT !.context = span, !.stoped_at = position_bits, !.borrowed = TRUE]

\* block_result values in the order of the enum
ResultRank(r) ==
    IF r = "SUCCESS" THEN 0 ELSE IF r = "LAST_BLOCK" THEN 1
    ELSE IF r = "CAUGHT_UP_DOWNSTREAM" THEN 2 ELSE IF r = "FLUSH_FAIL" THEN 3 ELSE 4

\* One turn of decompress_loop after the predicate said no: the stop check,
\* then do_block.  c is the worker's own channel.
LoopTurn(c, pos, w, tb) ==
    IF pos >= c.stop_after
    THEN [res |-> "CAUGHT_UP_DOWNSTREAM", w |-> w, pos |-> pos,
          c |-> [c EXCEPT !.stop_after = unset_stop_pos]]
    ELSE LET Turned(r) == [res |-> r.res, w |-> r.w, pos |-> r.pos, c |-> c]
         IN  Turned(do_block(TheStream, pos, w, tb))

\* Symbols stored through a pointer that starts at offset from.
WriteSpan(w, from, syms) ==
    [w EXCEPT !.buf = [a \in 0..(buffer_size - 1) |->
        IF \E i \in 1..Len(syms) : Cell(from + i - 1) = a
        THEN syms[CHOOSE i \in 1..Len(syms) : Cell(from + i - 1) = a]
        ELSE w.buf[a]]]

\* The symbols a span points at, read from the window buffer that backs it.
ReadSpan(w, from) == [i \in 1..context_size |-> w.buf[Cell(from + i - 1)]]

\* context_to_lkt: code -> symbol of the context.  lkt[i] indexes the span
\* unchecked, so an entry past the span reads the memory that follows it.
context_to_lkt(lkt, w, from) ==
    [i \in 0..(total_available_symbols - 1) |->
        IF i < first_backref_symbol THEN i ELSE w.buf[Cell(from + lkt[i])]]

\* the assertions of context_to_lkt
context_to_lkt_asserts(lkt, w, from) ==
    \A i \in first_backref_symbol..last_backref_symbol :
        lkt[i] < context_size /\ w.buf[Cell(from + lkt[i])] < first_backref_symbol

\* the assertion loop of set_context
set_context_asserts(context) ==
    \A i \in 1..context_size : context[i] >= min_value /\ context[i] <= max_value

(***************************************************************************)
(* Spec: the worker threads.  pc[t] is the place of thread t in its thread *)
(* function; an assertion that fails aborts the process in the debug       *)
(* build and is compiled out in the NDEBUG build.                          *)
(***************************************************************************)
\* uninitialised entries of a fresh multiplexer table
LktGarbage == {0, context_size}

\* "block_count <= 8" of go(), scaled
wide_blocks_min == 2
\* default arguments of sync(), scaled
sync_max_bits_skip == 8
sync_min_block_size == 2

NewFirstBlock ==
    [section_idx |-> 0, pos |-> 0, res |-> "SUCCESS", window |-> NewWindow,
     resume_bitpos |-> 0, up_span |-> NoSpan, freed |-> FALSE]

NewRandomAccess(g) ==
    [section_idx |-> 0, pos |-> 0, res |-> "SUCCESS", sync_bitpos |-> 0,
     block_count |-> 0, wide |-> NewWindow, window |-> NewWindow,
     narrow_cap |-> 0, lkt |-> NewLkt(g), allocated |-> 0, up_span |-> NoSpan,
     up_stop |-> 0, clkt |-> <<>>, freed |-> FALSE]

NewHist ==
    [published |-> [t \in Workers |-> <<>>],
     received |-> [t \in Workers |-> <<>>],
     exposed |-> [t \in Workers |-> FALSE],
     upstream_wrote |-> [t \in Workers |-> <<>>],
     decoded |-> [t \in Workers |-> {}],
     asserts |-> {}]

\* The history after a turn of worker t's decompress_loop on the block at
\* pos: a block that do_block decoded into the worker's window is recorded.
BlockDecoded(h, t, pos, res) ==
    IF res \in {"SUCCESS", "LAST_BLOCK"} THEN [h EXCEPT !.decoded[t] = @ \cup {pos}] ELSE h

OthersIdle == mx = IdleMx /\ sy = IdleSy /\ sc = IdleSc /\ fn = IdleFn

Init ==
    /\ OthersIdle
    /\ reg \in {[n_ready |-> 0, deflate_threads |-> {}, aborted |-> FALSE,
                  nthreads_arg |-> i.nthreads, stream |-> StreamOf(i.lens)] : i \in Inputs}
    /\ pc = [t \in Workers |-> "start"]
    /\ \E g \in LktGarbage :
         wk = [t \in Workers |-> IF t = 0 THEN NewFirstBlock ELSE NewRandomAccess(g)]
    /\ ch = [t \in Workers |-> NewChannel]
    /\ sink = <<>>
    /\ hist = NewHist
    /\ build \in {"debug", "ndebug"}

\* The effect of one step of thread t that evaluated assertions: ok tells
\* whether they all held, name is the one that can fail.
Step(t, ok, name, pc1, wk1, ch1, sink1, hist1) ==
    IF ~ok /\ build = "debug"
    THEN /\ reg' = [reg EXCEPT !.aborted = TRUE]
         /\ hist' = [hist EXCEPT !.asserts = @ \cup {name}]
         /\ UNCHANGED <<pc, wk, ch, sink, mx, sy, sc, build, fn>>
    ELSE /\ pc' = [pc EXCEPT ![t] = pc1]
         /\ wk' = [wk EXCEPT ![t] = wk1]
         /\ ch' = ch1
         /\ sink' = sink1
         /\ hist' = IF ok THEN hist1 ELSE [hist1 EXCEPT !.asserts = @ \cup {name}]
         /\ UNCHANGED <<reg, mx, sy, sc, build, fn>>

Running(t, at) == ~reg.aborted /\ pc[t] = at

\* "deflate_threads[chunk_idx] = &deflate_thread; n_ready++; ready.notify_all()"
Register(t) ==
    /\ Running(t, "start")
    /\ reg' = [reg EXCEPT !.n_ready = @ + 1, !.deflate_threads = @ \cup {t}]
    /\ pc' = [pc EXCEPT ![t] = "barrier"]
    /\ UNCHANGED <<wk, ch, sink, hist, mx, sy, sc, build, fn>>

\* "while (n_ready != nthreads) ready.wait(lock)", then set_upstream
Barrier(t) ==
    /\ Running(t, "barrier")
    /\ reg.n_ready = nthreads
    /\ pc' = [pc EXCEPT ![t] = IF t = 0 THEN "go" ELSE "sync"]
    /\ UNCHANGED <<wk, ch, reg, sink, hist, mx, sy, sc, build, fn>>

\* DeflateThreadFirstBlock::go up to the loop: wait_for_context_borrow,
\* set_position_bits, _window.clear()
FirstGo ==
    /\ Running(0, "go")
    /\ wait_for_context_borrow(ch[0])
    /\ LET position_bits == IF wk[0].section_idx = 0 THEN 0 ELSE wk[0].resume_bitpos
       IN  Step(0, TRUE, "",
                "loop",
                [wk[0] EXCEPT !.pos = set_position_bits(TheStream, position_bits).pos,
                              !.window = WindowClear(@)],
                ch, sink, hist)

\* One turn of decompress_loop(_window, ...).
FirstLoop ==
    /\ Running(0, "loop")
    /\ \E r \in {LoopTurn(ch[0], wk[0].pos, wk[0].window, FALSE)} :
           Step(0, TRUE, "",
                IF r.res = "SUCCESS" THEN "loop" ELSE "post",
                [wk[0] EXCEPT !.pos = r.pos, !.window = r.w, !.res = r.res],
                [ch EXCEPT ![0] = r.c], sink, BlockDecoded(hist, 0, wk[0].pos, r.res))

\* The end of go(): "if (res > CAUGHT_UP_DOWNSTREAM) assert(false)", then
\* set_context(_window.current_context()); back in the thread function, the
\* next section or the end.
FirstPost ==
    /\ Running(0, "post")
    /\ ch[0].lock = NoThread
    /\ LET span == wk[0].window.next - context_size
           context == ReadSpan(wk[0].window, span)
           more == wk[0].section_idx + 1 < n_sections
       IN  Step(0,
                ResultRank(wk[0].res) <= ResultRank("CAUGHT_UP_DOWNSTREAM")
                    /\ set_context_asserts(context),
                "FirstBlock::go",
                IF more THEN "get_prev" ELSE "dtor",
                [wk[0] EXCEPT !.section_idx = @ + 1],
                [ch EXCEPT ![0] = set_context(@, span, wk[0].pos)],
                sink,
                [hist EXCEPT !.published[0] = Append(@, [context |-> context, pos |-> wk[0].pos]),
                             !.exposed[0] = TRUE])

\* The sink holds what its writer wrote for section s of the stream.
Wrote(t, s) == \E i \in 1..Len(sink) : sink[i].w = t /\ sink[i].s = s

\* "auto ctx = prev_chunk.get_context()" in the thread function of chunk 0
FirstGetPrev ==
    /\ Running(0, "get_prev")
    /\ CanGetContext(ch[LastWorker])
    /\ LET up == ch[LastWorker]
       IN  Step(0, TRUE, "",
                "init_ctx",
                [wk[0] EXCEPT !.up_span = up.context, !.resume_bitpos = up.stoped_at],
                [ch EXCEPT ![LastWorker] = get_context(@, 0)],
                sink,
                [hist EXCEPT !.received[LastWorker] =
                                 Append(@, [context |-> ReadSpan(wk[LastWorker].window, up.context),
                                            pos |-> up.stoped_at]),
                             !.upstream_wrote[0] =
                                 Append(@, Wrote(LastWorker, wk[0].section_idx - 1))])

\* set_initial_context(ctx.first): wait_for_context_borrow, memcpy over
\* _window.current_context(); then the locked_span goes out of scope and
\* "assert(resume_bitpos >= (section_idx - 1) * section_size * 8)".
FirstInitContext ==
    /\ Running(0, "init_ctx")
    /\ wait_for_context_borrow(ch[0])
    /\ LET context == ReadSpan(wk[LastWorker].window, wk[0].up_span)
       IN  Step(0,
                wk[0].resume_bitpos >= (wk[0].section_idx - 1) * section_size * 8,
                "resume_bitpos",
                "go",
                [wk[0] EXCEPT !.window =
                    WriteSpan(@, wk[0].window.next - context_size, context)],
                [ch EXCEPT ![LastWorker] = release_locked_span(@)],
                sink,
                [hist EXCEPT !.exposed[LastWorker] = FALSE])

\* ~DeflateThreadFirstBlock / ~DeflateThreadRandomAccess:
\* wait_for_context_borrow, then the members (the windows) are destroyed
Destroy(t) ==
    /\ Running(t, "dtor")
    /\ wait_for_context_borrow(ch[t])
    /\ Step(t, TRUE, "", "done", [wk[t] EXCEPT !.freed = TRUE], ch, sink, hist)

\* Where the thread function of a random access chunk goes when go() returns.
AfterGo(t) ==
    IF wk[t].section_idx + 1 < n_sections THEN "sync"
    ELSE IF t = LastWorker THEN "self_get" ELSE "dtor"

\* The thread function's set_end_block for the last chunk, then go() up to
\* decompress_loop: sync, the two FIXME assertions, wide_window.clear and
\* the seeding of its context.
RaSync(t) ==
    /\ Running(t, "sync")
    /\ LET section_offset == wk[t].section_idx * section_size
           start == section_offset + chunk_offset_start(t)
           stop == section_offset + chunk_offset_stop(t)
           self == IF t = LastWorker THEN set_end_block(ch[t], stop * 8) ELSE ch[t]
           stop_bitpos == self.stop_after
       IN  \E r \in {sync(TheStream, start * 8, sync_max_bits_skip, sync_min_block_size)} :
           Step(t,
                /\ r.ret < StreamSizeBits(TheStream)
                /\ ~(stop_bitpos # unset_stop_pos /\ r.ret >= stop_bitpos),
                "sync_bitpos",
                "wide",
                [wk[t] EXCEPT !.pos = r.in_pos, !.sync_bitpos = r.ret, !.block_count = 0,
                              !.wide = SeedSymbolic(
                                  WindowToBufferClear(@, buffer_virtual_size \div 2))],
                [u \in Workers |->
                    IF u = t THEN self
                    ELSE IF u = t - 1 /\ r.stop # 0 - 1 THEN set_end_block(ch[u], r.stop)
                    ELSE ch[u]],
                sink, hist)

\* go() after decompress_loop(wide_window, ...) returned res: final_flush and
\* the branches on res.  Result: assertions held, next place, thread state.
WideEnd(t, res, w) ==
    LET Branch(f, res1, w1) ==
            IF res1 = "SUCCESS"
            THEN [ok |-> TRUE, pc |-> "narrow",
                  wk |-> [w1 EXCEPT !.window = WindowToBufferClear(@, 2 * f.rest)]]
            ELSE IF res1 \in {"CAUGHT_UP_DOWNSTREAM", "LAST_BLOCK"}
            THEN [ok |-> FALSE, pc |-> "short_wait", wk |-> w1]
            ELSE [ok |-> FALSE, pc |-> AfterGo(t), wk |-> [w1 EXCEPT !.section_idx = @ + 1]]
        Flushed(f, res1) ==
            Branch(f, res1, [w EXCEPT !.wide = f.w, !.res = res1, !.narrow_cap = 2 * f.rest])
        Flush(f) ==
            Flushed(f, IF ~f.ok /\ ResultRank(res) <= ResultRank("CAUGHT_UP_DOWNSTREAM")
                       THEN "FLUSH_FAIL" ELSE res)
    IN  Flush(final_flush(w.wide))

\* A turn of decompress_loop(wide_window, ...) whose predicate said no.
WideTurn(t, w) ==
    LET Ended(e, ch1, h) == Step(t, e.ok, "wide_result", e.pc, e.wk, ch1, sink, h)
        Turned(r, w1, ch1) ==
            IF r.res = "SUCCESS"
            THEN Step(t, TRUE, "", "wide", w1, ch1, sink, BlockDecoded(hist, t, w.pos, r.res))
            ELSE \E e \in {WideEnd(t, r.res, w1)} :
                     Ended(e, ch1, BlockDecoded(hist, t, w.pos, r.res))
        Turn(r) == Turned(r, [w EXCEPT !.pos = r.pos, !.wide = r.w, !.res = r.res],
                          [ch EXCEPT ![t] = r.c])
    IN  \E r \in {LoopTurn(ch[t], w.pos, w.wide, TRUE)} : Turn(r)

\* The predicate "block_count++; if (block_count <= 8 || block_count % 2 == 0)
\* return false;" and, when it returns false, the rest of the turn.
RaWide(t) ==
    /\ Running(t, "wide")
    /\ LET w == [wk[t] EXCEPT !.block_count = @ + 1]
       IN  IF w.block_count <= wide_blocks_min \/ w.block_count % 2 = 0
           THEN WideTurn(t, w)
           ELSE Step(t, TRUE, "", "borrow_wait", w, ch, sink, hist)

\* The rest of the predicate: wait_for_context_borrow, then
\* compress_backref_symbols(wide_window, narrow_window); true ends the loop.
RaCompress(t) ==
    /\ Running(t, "borrow_wait")
    /\ wait_for_context_borrow(ch[t])
    /\ LET Ended(e) == Step(t, e.ok, "wide_result", e.pc, e.wk, ch, sink, hist)
           Compressed(c, w) ==
               IF c.ret = "true" THEN \E e \in {WideEnd(t, "SUCCESS", w)} : Ended(e)
               ELSE WideTurn(t, w)
           Compress(c) ==
               Compressed(c, [wk[t] EXCEPT
                   !.lkt = c.lkt, !.allocated = c.allocated,
                   !.window = WriteSpan(@, wk[t].window.next - context_size, c.out)])
       IN  \E c \in {compress_backref_symbols(wk[t].lkt, wk[t].allocated,
                                                current_context(wk[t].wide))} : Compress(c)

\* "assert(false); wait_for_context_borrow(); narrow_window.clear(narrow_buffer)"
RaShortWait(t) ==
    /\ Running(t, "short_wait")
    /\ wait_for_context_borrow(ch[t])
    /\ Step(t, TRUE, "", AfterGo(t),
            [wk[t] EXCEPT !.window = WindowToBufferClear(@, wk[t].narrow_cap),
                          !.section_idx = @ + 1],
            ch, sink, hist)

\* One turn of decompress_loop(narrow_window, ...).
RaNarrow(t) ==
    /\ Running(t, "narrow")
    /\ \E r \in {LoopTurn(ch[t], wk[t].pos, wk[t].window, TRUE)} :
       LET w == [wk[t] EXCEPT !.pos = r.pos, !.window = r.w, !.res = r.res]
       IN  IF r.res = "SUCCESS"
           THEN Step(t, TRUE, "", "narrow", w, [ch EXCEPT ![t] = r.c], sink,
                     BlockDecoded(hist, t, wk[t].pos, r.res))
           ELSE IF r.res \in {"CAUGHT_UP_DOWNSTREAM", "LAST_BLOCK"}
           THEN Step(t, TRUE, "", "get_ctx", w, [ch EXCEPT ![t] = r.c], sink,
                     BlockDecoded(hist, t, wk[t].pos, r.res))
           ELSE Step(t, FALSE, "narrow_result", AfterGo(t),
                     [w EXCEPT !.section_idx = @ + 1], [ch EXCEPT ![t] = r.c], sink, hist)

\* "auto upstream_context = _up_stream->get_context()"
RaGetContext(t) ==
    /\ Running(t, "get_ctx")
    /\ CanGetContext(ch[t - 1])
    /\ LET up == ch[t - 1]
       IN  Step(t, TRUE, "",
                "borrowing",
                [wk[t] EXCEPT !.up_span = up.context, !.up_stop = up.stoped_at],
                [ch EXCEPT ![t - 1] = get_context(@, t)],
                sink,
                [hist EXCEPT !.received[t - 1] =
                                 Append(@, [context |-> ReadSpan(wk[t - 1].window, up.context),
                                            pos |-> up.stoped_at]),
                             !.upstream_wrote[t] =
                                 Append(@, Wrote(t - 1, wk[t].section_idx))])

\* "lkt = multiplexer.context_to_lkt(upstream_context.first);
\*  assert(sync_bitpos == upstream_context.second);" and the end of the scope
\* of upstream_context
RaBorrowing(t) ==
    /\ Running(t, "borrowing")
    /\ LET up == wk[t - 1].window
       IN  Step(t,
                /\ context_to_lkt_asserts(wk[t].lkt, up, wk[t].up_span)
                /\ wk[t].sync_bitpos = wk[t].up_stop,
                "upstream_context",
                "publish",
                [wk[t] EXCEPT !.clkt = context_to_lkt(wk[t].lkt, up, wk[t].up_span)],
                [ch EXCEPT ![t - 1] = release_locked_span(@)],
                sink,
                [hist EXCEPT !.exposed[t - 1] = FALSE])

\* "for (auto& c : narrow_window.current_context()) c = lkt[c];
\*  this->set_context(narrow_window.current_context());"
RaPublish(t) ==
    /\ Running(t, "publish")
    /\ ch[t].lock = NoThread
    /\ LET span == wk[t].window.next - context_size
           old == ReadSpan(wk[t].window, span)
           context == [i \in 1..context_size |-> wk[t].clkt[old[i]]]
       IN  Step(t,
                set_context_asserts(context),
                "set_context",
                "write",
                [wk[t] EXCEPT !.window = WriteSpan(@, span, context)],
                [ch EXCEPT ![t] = set_context(@, span, wk[t].pos)],
                sink,
                [hist EXCEPT !.published[t] = Append(@, [context |-> context, pos |-> wk[t].pos]),
                             !.exposed[t] = TRUE])

\* "write(STDOUT_FILENO, narrow_window.current_context().begin(), ...size())",
\* the last statement of go()
RaWrite(t) ==
    /\ Running(t, "write")
    /\ Step(t, TRUE, "",
            AfterGo(t),
            [wk[t] EXCEPT !.section_idx = @ + 1],
            ch,
            Append(sink, [w |-> t, s |-> wk[t].section_idx,
                          bytes |-> current_context(wk[t].window)]),
            hist)

\* "if (chunk_idx == nthreads - 1) deflate_thread.get_context();": the
\* locked_span is a temporary, released at the end of the statement
RaSelfGet(t) ==
    /\ Running(t, "self_get")
    /\ CanGetContext(ch[t])
    /\ Step(t, TRUE, "",
            "dtor",
            wk[t],
            [ch EXCEPT ![t] = release_locked_span(get_context(@, t))],
            sink,
            [hist EXCEPT !.received[t] =
                             Append(@, [context |-> ReadSpan(wk[t].window, ch[t].context),
                                        pos |-> ch[t].stoped_at]),
                         !.exposed[t] = FALSE])

FirstBlockThread ==
    \/ Register(0) \/ Barrier(0)
    \/ FirstGo \/ FirstLoop \/ FirstPost
    \/ FirstGetPrev \/ FirstInitContext
    \/ Destroy(0)

RandomAccessThread(t) ==
    \/ Register(t) \/ Barrier(t)
    \/ RaSync(t) \/ RaWide(t) \/ RaCompress(t) \/ RaShortWait(t) \/ RaNarrow(t)
    \/ RaGetContext(t) \/ RaBorrowing(t) \/ RaPublish(t) \/ RaWrite(t)
    \/ RaSelfGet(t)
    \/ Destroy(t)

Next == FirstBlockThread \/ \E t \in RandomAccess : RandomAccessThread(t)

Spec == Init /\ [][Next]_vars

(***************************************************************************)
(* C1 .. C6: the output and the handoff.                                   *)
(***************************************************************************)
AllDone == \A t \in Workers : pc[t] = "done"

RECURSIVE Concat(_, _)
Concat(entries, i) ==
    IF i > Len(entries) THEN <<>> ELSE entries[i].bytes \o Concat(entries, i + 1)

\* The sink entries of chunk t of section s, in write order.
SinkOf(s, t) == SelectSeq(sink, LAMBDA e : e.s = s /\ e.w = t)

RECURSIVE SinkInStreamOrder(_, _)
SinkInStreamOrder(s, t) ==
    IF s >= n_sections THEN <<>>
    ELSE IF t >= nthreads THEN SinkInStreamOrder(s + 1, 0)
    ELSE Concat(SinkOf(s, t), 1) \o SinkInStreamOrder(s, t + 1)

\* C1: once every worker has finished, with no assertion failed on the way,
\* the bytes written to the sink, taken section by section and chunk by
\* chunk, are the bytes of the sequential decode of the whole stream.
C1_ParallelEqualsSequential ==
    (AllDone /\ hist.asserts = {}) => SinkInStreamOrder(0, 0) = SequentialOutput

\* C2: a worker writes only after it received its upstream neighbour's
\* context, the neighbour had by then written its output for the section,
\* and so the writes reach the sink in chunk order.
C2_WritesInChunkOrder ==
    /\ \A i \in 1..Len(sink) :
          sink[i].w > 0 => Len(hist.received[sink[i].w - 1]) > sink[i].s
    /\ \A t \in Workers : \A k \in 1..Len(hist.upstream_wrote[t]) : hist.upstream_wrote[t][k]
    /\ \A i, j \in 1..Len(sink) :
          i < j => \/ sink[i].s < sink[j].s
                   \/ sink[i].s = sink[j].s /\ sink[i].w < sink[j].w

IsPrefix(a, b) == Len(a) <= Len(b) /\ \A i \in 1..Len(a) : a[i] = b[i]

\* C3: what get_context has returned on worker t so far is, in order, what
\* set_context stored on t (slice contents and stop position): nothing is
\* returned before it is stored, and nothing is returned twice.
C3_ReceivedWhatWasPublished ==
    \A t \in Workers : IsPrefix(hist.received[t], hist.published[t])

\* Both contexts a worker published, one per section, were received.
C3_Witness ==
    \E t \in Workers :
        /\ Len(hist.received[t]) = 2
        /\ hist.received[t][1] # hist.received[t][2]

\* C4: while a published context is out (from set_context until the
\* downstream worker lets go of the slice), no step changes the publisher's
\* window (its symbols or its write pointer) or frees it.
C4_WindowKeptWhileBorrowed ==
    [][\A t \in Workers :
          hist.exposed[t] =>
              /\ wk'[t].window = wk[t].window
              /\ wk'[t].freed = wk[t].freed]_vars

\* A publisher stopped at a wait_for_context_borrow while its downstream
\* neighbour holds the slice.
C4_Witness ==
    \E t \in Workers :
        /\ hist.exposed[t]
        /\ ch[t].lock # NoThread
        /\ pc[t] \in {"borrow_wait", "dtor", "go"}

\* C5: set_context has not returned while the context it posted is still
\* out: set_context returns within the step that posts, so no state may
\* show a context that is out.
C5_SetContextReturnsAfterRelease ==
    \A t \in Workers : ~hist.exposed[t]

\* C6: the stop position a worker receives with its upstream neighbour's
\* context is the position its own sync returned.
C6_StopIsSyncPosition ==
    \A t \in RandomAccess :
        pc[t] = "borrowing" => wk[t].up_stop = wk[t].sync_bitpos

\* The sync() of worker t's current go() found no block.
SyncFailed(t) == wk[t].sync_bitpos >= StreamSizeBits(TheStream)

\* C12: a worker whose sync found no block in its scan budget stops there:
\* it decodes nothing from the position the scan ended at and posts no
\* context for that chunk.
C12_SyncFailureIsFatal ==
    \A t \in RandomAccess :
        (pc[t] \in {"wide", "borrow_wait", "short_wait", "narrow", "get_ctx",
                    "borrowing", "publish", "write"}) => ~SyncFailed(t)

(***************************************************************************)
(* InputStream (input_stream.hpp).  The state is                           *)
(*   in             the bytes begin..in_end                                *)
(*   in_next        the read pointer, as in_next - begin                   *)
(*   bitbuf         the bit buffer, bit i of the word at index i           *)
(*   bitsleft       the number of valid bits of bitbuf                     *)
(*   overrun_count  the bytes fill_bits_bytewise counted past in_end       *)
(*   oob            what a byte read outside begin..in_end holds           *)
(*   bad            an assertion of the class has failed on this object    *)
(* A failed assertion aborts the debug build; the operators compute what   *)
(* the NDEBUG build goes on to do and record the failure in bad.           *)
(***************************************************************************)
bitbuf_length == 64
bitbuf_max_ensure == bitbuf_length - 7
\* the range of size_t, scaled
size_modulus == 1073741824

RECURSIVE Pow2(_)
Pow2(n) == IF n = 0 THEN 1 ELSE 2 * Pow2(n - 1)

size_t(x) == IF x < 0 THEN x + size_modulus ELSE x

BitOr(a, b) == IF a = 1 \/ b = 1 THEN 1 ELSE 0

NewInputStream(in, oob) ==
    [in |-> in, in_next |-> 0, bitbuf |-> [i \in 0..(bitbuf_length - 1) |-> 0],
     bitsleft |-> 0, overrun_count |-> 0, oob |-> oob, bad |-> FALSE]

\* *(begin + i)
ByteAt(s, i) == IF i >= 0 /\ i < Len(s.in) THEN s.in[i + 1] ELSE s.oob

have_bits(s, n) == s.bitsleft >= n

\* InputStream::available(), asserting in_end >= in_next
in_available(s) == size_t(Len(s.in) - s.in_next)
in_available_ok(s) == Len(s.in) >= s.in_next

position_bits(s) == size_t(8 * s.in_next - s.bitsleft)

\* bit k of get_unaligned_leword(in_next)
WordBit(s, k) == (ByteAt(s, s.in_next + (k \div 8)) \div Pow2(k % 8)) % 2

fill_bits_wordwise(s) ==
    [s EXCEPT !.bitbuf = [i \in 0..(bitbuf_length - 1) |->
                             IF i < s.bitsleft THEN s.bitbuf[i]
                             ELSE BitOr(s.bitbuf[i], WordBit(s, i - s.bitsleft))],
              !.in_next = @ + ((bitbuf_length - s.bitsleft) \div 8),
              !.bitsleft = @ + ((bitbuf_length - s.bitsleft) \div 8) * 8]

\* Mutant of fill_bits_bytewise: the loop goes on while bitsleft <= bitbuf_length.
RECURSIVE fill_bits_bytewise_once_more(_)
fill_bits_bytewise_once_more(s) ==
    LET Again(t) == IF t.bitsleft <= bitbuf_length THEN fill_bits_bytewise_once_more(t) ELSE t
    IN  Again(IF s.in_next # Len(s.in)
              THEN [s EXCEPT !.bitbuf = [i \in 0..(bitbuf_length - 1) |->
                                            IF i >= s.bitsleft /\ i < s.bitsleft + 8
                                            THEN BitOr(s.bitbuf[i], WordBit(s, i - s.bitsleft))
                                            ELSE s.bitbuf[i]],
                             !.in_next = @ + 1, !.bitsleft = @ + 8]
              ELSE [s EXCEPT !.overrun_count = @ + 1, !.bitsleft = @ + 8])

RECURSIVE fill_bits_bytewise(_)
fill_bits_bytewise(s) ==
    LET Again(t) == IF t.bitsleft <= bitbuf_length - 8 THEN fill_bits_bytewise(t) ELSE t
    IN  Again(IF s.in_next # Len(s.in)
              THEN [s EXCEPT !.bitbuf = [i \in 0..(bitbuf_length - 1) |->
                                            IF i >= s.bitsleft /\ i < s.bitsleft + 8
                                            THEN BitOr(s.bitbuf[i], WordBit(s, i - s.bitsleft))
                                            ELSE s.bitbuf[i]],
                             !.in_next = @ + 1, !.bitsleft = @ + 8]
              ELSE [s EXCEPT !.overrun_count = @ + 1, !.bitsleft = @ + 8])

\* ensure_bits<n>()
ensure_bits(s, n) ==
    IF have_bits(s, n) THEN [ok |-> TRUE, s |-> s]
    ELSE IF in_available(s) < 1 THEN [ok |-> FALSE, s |-> s]
    ELSE LET t == [s EXCEPT !.bad = @ \/ ~in_available_ok(s)]
         IN  [ok |-> TRUE,
              s |-> IF in_available(s) >= bitbuf_length \div 8
                    THEN fill_bits_wordwise(t) ELSE fill_bits_bytewise(t)]

\* bits(n): the low n bits of bitbuf as a number (n <= 16 here)
RECURSIVE bits(_, _)
bits(s, n) == IF n = 0 THEN 0 ELSE bits(s, n - 1) + s.bitbuf[n - 1] * Pow2(n - 1)

\* remove_bits(n); bitsleft is unsigned, bitbuf shifts in zeroes
remove_bits(s, n) ==
    [s EXCEPT !.bitbuf = [i \in 0..(bitbuf_length - 1) |->
                             IF i + n < bitbuf_length THEN s.bitbuf[i + n] ELSE 0],
              !.bitsleft = size_t(@ - n),
              !.bad = @ \/ s.bitsleft < n]

\* Mutant of pop_bits: the bits are returned but stay in the buffer.
pop_bits_peek(s, n) == [v |-> bits(s, n), s |-> s]

\* pop_bits(n)
pop_bits(s, n) == [v |-> bits(s, n), s |-> remove_bits(s, n)]

\* align_input(); the subtraction is unsigned and in_next is a pointer, so
\* an overrun_count above bitsleft >> 3 moves in_next forward
align_input(s) ==
    [s EXCEPT !.in_next = @ - ((s.bitsleft \div 8) - s.overrun_count),
              !.bitbuf = [i \in 0..(bitbuf_length - 1) |-> 0],
              !.bitsleft = 0,
              !.bad = @ \/ s.overrun_count > s.bitsleft \div 8]

\* pop_u16()
pop_u16(s) ==
    [v |-> ByteAt(s, s.in_next) + 256 * ByteAt(s, s.in_next + 1),
     s |-> [s EXCEPT !.in_next = @ + 2,
                     !.bad = @ \/ ~in_available_ok(s) \/ in_available(s) < 2]]

\* check_ascii(n)
check_ascii_max == 99
check_ascii(s, n) ==
    /\ ~(n > in_available(s))
    /\ \A i \in 0..(n - 1) :
           ~(ByteAt(s, s.in_next + i) > check_ascii_max \/ ByteAt(s, s.in_next + i) < min_value)

\* copy(out, n): the bytes copied and the stream after it
stream_copy(s, n) ==
    [bytes |-> [i \in 1..n |-> ByteAt(s, s.in_next + i - 1)],
     s |-> [s EXCEPT !.in_next = @ + n,
                     !.bad = @ \/ ~in_available_ok(s) \/ in_available(s) < n]]

(***************************************************************************)
(* do_block from the bits of an InputStream: the block header, stored      *)
(* blocks, and the result of a block.  A window is                         *)
(*   [kind |-> "Window", w |-> a Window]           or                      *)
(*   [kind |-> "DummyWindow", size |-> _size].                             *)
(* The Huffman layer stays abstract: huff tells what prepare_dynamic       *)
(* returns and which literals and matches the codewords decode to.         *)
(***************************************************************************)
DEFLATE_BLOCKTYPE_UNCOMPRESSED == 0
DEFLATE_BLOCKTYPE_STATIC_HUFFMAN == 1
DEFLATE_BLOCKTYPE_DYNAMIC_HUFFMAN == 2

\* "1 + 2 + 5 + 5 + 4" of do_block
block_header_bits == 17

AWindow(w) == [kind |-> "Window", w |-> w]
ADummyWindow(size) == [kind |-> "DummyWindow", size |-> size]

\* Window::copy(in, length) and DummyWindow::copy(in, length)
window_copy(win, s, length) ==
    IF win.kind = "DummyWindow"
    THEN [ok |-> check_ascii(s, length), win |-> ADummyWindow(win.size + length), s |-> s,
          bad |-> FALSE]
    ELSE IF ~check_ascii(s, length) THEN [ok |-> FALSE, win |-> win, s |-> s, bad |-> FALSE]
    ELSE LET Copied(c) ==
                 [ok |-> TRUE,
                  win |-> AWindow(WriteSpan([win.w EXCEPT !.next = @ + length],
                                            win.w.next, c.bytes)),
                  s |-> c.s,
                  \* assert(next <= waterline); assert(available() >= length)
                  bad |-> win.w.next > waterline \/ size_t(available(win.w)) < length]
         IN  Copied(stream_copy(s, length))

\* do_uncompressed(out)
do_uncompressed(win, s0) ==
    LET Fail(s) == [ok |-> FALSE, win |-> win, s |-> s, bad |-> FALSE]
        Lengths(len, nlen) ==
            IF len.v # 65535 - nlen.v THEN Fail(nlen.s)
            ELSE IF len.v > in_available(nlen.s) THEN Fail(nlen.s)
            ELSE window_copy(win, nlen.s, len.v)
        Len16(len) == Lengths(len, pop_u16(len.s))
        Aligned(s) == IF in_available(s) < 4 THEN Fail(s) ELSE Len16(pop_u16(s))
    IN  Aligned(align_input(s0))

\* The Huffman decode loop of do_block on either window.
window_huffman(win, ops) ==
    IF win.kind = "DummyWindow"
    THEN LET Done(l) == [res |-> l.res, win |-> ADummyWindow(l.size)]
         IN  Done(DummyHuffmanLoop(win.size, ops, 1))
    ELSE LET Done(l) == [res |-> l.res, win |-> AWindow(l.w)]
         IN  Done(HuffmanLoop(win.w, ops, 1, FALSE))

\* do_block(window): res is the block_result, stored tells that the block
\* went through do_uncompressed, nsyms how many Huffman symbols were decoded.
do_block_bits(win, s0, huff) ==
    LET Ret(res, w, s, stored, bad) ==
            [res |-> res, win |-> w, s |-> [s EXCEPT !.bad = @ \/ bad], stored |-> stored]
        Huffman(success, s) ==
            LET Looped(l) == Ret(IF l.res = "SUCCESS" THEN success ELSE l.res,
                                 l.win, s, FALSE, l.res = "ASSERT")
            IN  Looped(window_huffman(win, huff.ops))
        Stored(success, u) ==
            IF ~u.ok THEN Ret("INVALID_UNCOMPRESSED_BLOCK", u.win, u.s, TRUE, u.bad)
            ELSE Ret(success, u.win, u.s, TRUE, u.bad)
        Type(success, t) ==
            IF t.v = DEFLATE_BLOCKTYPE_DYNAMIC_HUFFMAN
            THEN (IF ~huff.dyn_ok THEN Ret("INVALID_DYNAMIC_HT", win, t.s, FALSE, FALSE)
                  ELSE Huffman(success, t.s))
            ELSE IF t.v = DEFLATE_BLOCKTYPE_UNCOMPRESSED
            THEN Stored(success, do_uncompressed(win, t.s))
            ELSE IF t.v = DEFLATE_BLOCKTYPE_STATIC_HUFFMAN
            THEN Huffman(success, t.s)
            ELSE Ret("INVALID_BLOCK_TYPE", win, t.s, FALSE, FALSE)
        Final(b) == Type(IF b.v # 0 THEN "LAST_BLOCK" ELSE "SUCCESS", pop_bits(b.s, 2))
        Ensured(e) ==
            IF ~e.ok THEN Ret("NOT_ENOUGH_INPUT", win, e.s, FALSE, FALSE)
            ELSE Final(pop_bits(e.s, 1))
    IN  Ensured(ensure_bits(s0, block_header_bits))

(***************************************************************************)
(* SpecBlk: do_block called on streams of one or two blocks.               *)
(***************************************************************************)
MaxStoredLen == 3
MaxBlkCalls == 2

\* header byte: BFINAL in bit 0, BTYPE in bits 1..2
HeaderByte(bfinal, btype) == bfinal + 2 * btype

\* payloads of n bytes: plain letters, one with a letter above 'c', one
\* with a byte above '~', one with a byte below '\t'
Payloads(n) ==
    {[i \in 1..n |-> 65 + i]} \cup
    (IF n = 0 THEN {}
     ELSE {[i \in 1..n |-> IF i = 1 THEN 120 ELSE 65 + i],
           [i \in 1..n |-> IF i = n THEN 200 ELSE 65 + i],
           [i \in 1..n |-> IF i = n THEN 5 ELSE 65 + i]})

StoredBlocks ==
    UNION {{<<HeaderByte(b, DEFLATE_BLOCKTYPE_UNCOMPRESSED), len, 0, 255 - len - d, 255>> \o pl :
               b \in {0, 1}, d \in {0, 1}, pl \in Payloads(len)} : len \in 0..MaxStoredLen}

OtherBlocks == {<<HeaderByte(b, t)>> : b \in {0, 1}, t \in {1, 2, 3}}

BlkTails ==
    {<<>>, <<HeaderByte(0, 0)>>, <<HeaderByte(1, 0), 0, 0, 255, 255>>,
     <<HeaderByte(0, 0), 1, 0, 254, 255, 66, 67, 68, 69>>}

\* the stream cut short by k bytes
DropLast(in, k) == SubSeq(in, 1, Len(in) - k)

BlkStreams ==
    {b \o t : b \in StoredBlocks \cup OtherBlocks, t \in BlkTails} \cup
    {DropLast(b, 1) : b \in StoredBlocks}

\* a Window that holds the context 1..context_size and has free symbols left
WindowWithFree(free) ==
    SetContext([NewWindow EXCEPT !.next = waterline - free],
               [i \in 1..context_size |-> 96 + i])

BlkWindows ==
    {AWindow(WindowWithFree(f)) : f \in {0, 2, waterline - midpoint}} \cup {ADummyWindow(0)}

BlkHuff ==
    {[dyn_ok |-> FALSE, ops |-> <<Lit(65)>>],
     [dyn_ok |-> TRUE, ops |-> <<Lit(65), Match(3, 1)>>],
     [dyn_ok |-> TRUE, ops |-> <<Lit(65), Lit(200)>>]}

OthersIdleBlk ==
    /\ mx = IdleMx /\ sy = IdleSy /\ sc = IdleSc
    /\ pc = <<>> /\ wk = <<>> /\ ch = <<>> /\ reg = <<>>
    /\ sink = <<>> /\ hist = <<>>

InitBlk ==
    /\ fn \in {[phase |-> "call", win |-> w, s |-> NewInputStream(in, o), huff |-> h,
                 res |-> "", stored |-> FALSE, calls |-> 0,
                 pre |-> [win |-> w, s |-> NewInputStream(in, o)]]
                : w \in BlkWindows, in \in BlkStreams, o \in {0, 255}, h \in BlkHuff}
    /\ build \in {"debug", "ndebug"}
    /\ OthersIdleBlk

\* One call of do_block; a failed assertion ends the debug build.
BlkCall ==
    /\ fn.phase = "call"
    /\ LET Called(r) ==
               IF r.s.bad /\ build = "debug"
               THEN [fn EXCEPT !.phase = "abort", !.res = "ABORT", !.calls = @ + 1,
                               !.pre = [win |-> fn.win, s |-> fn.s]]
               ELSE [fn EXCEPT !.phase = "ret", !.res = r.res, !.win = r.win, !.s = r.s,
                               !.stored = r.stored, !.calls = @ + 1,
                               !.pre = [win |-> fn.win, s |-> fn.s]]
       IN  fn' = Called(do_block_bits(fn.win, fn.s, fn.huff))
    /\ UNCHANGED <<mx, sy, sc, pc, wk, ch, reg, sink, hist, build>>

\* The caller's loop: after SUCCESS the next block is parsed.
BlkAgain ==
    /\ fn.phase = "ret" /\ fn.res = "SUCCESS" /\ fn.stored
    /\ fn.calls < MaxBlkCalls
    /\ fn' = [fn EXCEPT !.phase = "call"]
    /\ UNCHANGED <<mx, sy, sc, pc, wk, ch, reg, sink, hist, build>>

NextBlk == BlkCall \/ BlkAgain

SpecBlk == InitBlk /\ [][NextBlk]_vars

\* Bit p of the input, and the header of the block the last call parsed.
StreamBitAt(in, p) == (in[(p \div 8) + 1] \div Pow2(p % 8)) % 2
HdrPos == 8 * fn.pre.s.in_next - fn.pre.s.bitsleft
HdrInside == HdrPos >= 0 /\ HdrPos + 3 <= 8 * Len(fn.s.in)
BFINAL == StreamBitAt(fn.s.in, HdrPos)
BTYPE == StreamBitAt(fn.s.in, HdrPos + 1) + 2 * StreamBitAt(fn.s.in, HdrPos + 2)
\* first byte after the header, once aligned; LEN and NLEN when they are there
StoredStart == (HdrPos + 3 + 7) \div 8
StoredLEN == fn.s.in[StoredStart + 1] + 256 * fn.s.in[StoredStart + 2]
StoredNLEN == fn.s.in[StoredStart + 3] + 256 * fn.s.in[StoredStart + 4]
BlkReturned == fn.phase = "ret" /\ fn.res # "NOT_ENOUGH_INPUT" /\ HdrInside

C13_WitnessHuffman ==
    /\ BlkReturned /\ ~fn.stored /\ fn.res = "SUCCESS" /\ BTYPE = 2

\* The last call parsed a well-formed stored block: LEN is the complement of
\* NLEN, the LEN payload bytes are in the input and in min_value..max_value.
StoredPayload == [i \in 1..StoredLEN |-> fn.s.in[StoredStart + 4 + i]]
StoredWellFormed ==
    /\ fn.phase # "call" /\ fn.calls >= 1 /\ HdrInside
    /\ BTYPE = DEFLATE_BLOCKTYPE_UNCOMPRESSED
    /\ StoredStart + 4 <= Len(fn.s.in)
    /\ StoredLEN = 65535 - StoredNLEN
    /\ StoredStart + 4 + StoredLEN <= Len(fn.s.in)
    /\ \A i \in 1..StoredLEN : StoredPayload[i] >= min_value /\ StoredPayload[i] <= max_value

\* The window holds what it held before the call followed by syms.
Appended(syms) ==
    IF fn.win.kind = "DummyWindow"
    THEN fn.win.size = fn.pre.win.size + Len(syms)
    ELSE /\ fn.win.w.next <= waterline
         /\ Cell(fn.win.w.next) = Cell(fn.pre.win.w.next + Len(syms))
         /\ Cells(fn.win.w, fn.win.w.next - Len(syms) - context_size, fn.win.w.next)
              = current_context(fn.pre.win.w) \o syms

\* C14: a well-formed stored block makes do_block append exactly its LEN
\* payload bytes to the window, in order, and consume exactly 4 + LEN bytes
\* after alignment, whatever LEN is and however much room the window has.
C14_StoredBlockCopied ==
    StoredWellFormed =>
        /\ fn.phase = "ret"
        /\ fn.res = (IF BFINAL = 1 THEN "LAST_BLOCK" ELSE "SUCCESS")
        /\ fn.s.in_next = StoredStart + 4 + StoredLEN
        /\ Appended(StoredPayload)

\* The last call parsed a stored block that is malformed: fewer than 4 bytes
\* after alignment, LEN not the complement of NLEN, LEN more than the bytes
\* that remain, or a payload byte outside min_value..max_value.
StoredMalformed ==
    /\ fn.phase # "call" /\ fn.calls >= 1 /\ HdrInside
    /\ BTYPE = DEFLATE_BLOCKTYPE_UNCOMPRESSED
    /\ \/ Len(fn.s.in) - StoredStart < 4
       \/ StoredLEN # 65535 - StoredNLEN
       \/ StoredLEN > Len(fn.s.in) - (StoredStart + 4)
       \/ \E i \in 1..StoredLEN : StoredPayload[i] < min_value \/ StoredPayload[i] > max_value

\* C15: a malformed stored block makes do_block return
\* INVALID_UNCOMPRESSED_BLOCK and appends nothing to the window.
C15_StoredBlockRejected ==
    StoredMalformed =>
        /\ fn.phase = "ret"
        /\ fn.res = "INVALID_UNCOMPRESSED_BLOCK"
        /\ fn.win = fn.pre.win

(***************************************************************************)
(* DeflateWindow (deflate_window.hpp): a flat buffer of buffer_size        *)
(* symbols, buffer_end = buffer + buffer_size, no mirror.                  *)
(***************************************************************************)
\* sizeof(machine_word_t) / sizeof(char_t), scaled to the symbols of one batch
\* so that copy_word_unaligned is CopyBatch
word_chars == batch_copymatch_size

dw_available(w) == buffer_size - w.next

\* DeflateWindow::copy_match
dw_copy_match(w, length, offset) ==
    IF offset > context_size
    THEN [ok |-> FALSE, w |-> w]
    ELSE LET src == w.next - offset
             dst == w.next
             dst_end == w.next + length
             Bytewise == CopySymbols(w.buf, dst, src, IF length > 3 THEN length ELSE 3)
             b == IF /\ length <= 3 * word_chars
                     /\ offset >= word_chars
                     /\ length + 3 * word_chars <= dw_available(w)
                  THEN \* three copy_word_unaligned, one after the other
                       CopyBatch(CopyBatch(CopyBatch(w.buf, dst, src),
                                           dst + word_chars, src + word_chars),
                                 dst + 2 * word_chars, src + 2 * word_chars)
                  ELSE IF buffer_size - dst_end >= word_chars - 1
                  THEN (IF offset >= word_chars
                        THEN CopyBatches(w.buf, dst, src, dst_end)
                        ELSE IF offset = 1
                        THEN StoreRepeats(w.buf, dst, <<w.buf[Cell(dst - 1)]>>, dst_end)
                        ELSE Bytewise)
                  ELSE Bytewise
         IN  [ok |-> TRUE, w |-> [w EXCEPT !.buf = b, !.next = dst_end]]

(***************************************************************************)
(* SpecMatch: copy_match called once on a window that holds distinct       *)
(* symbols, for the lengths and offsets a match can have.                  *)
(***************************************************************************)
min_match_length == 3

\* every cell holds its own symbol
DistinctCells == [a \in 0..(buffer_size - 1) |-> 33 + a]

MatchWindows ==
    {[kind |-> "Window", w |-> [NewWindow EXCEPT !.buf = DistinctCells, !.next = n]]
        : n \in context_size..waterline} \cup
    {[kind |-> "DeflateWindow", w |-> [NewWindow EXCEPT !.buf = DistinctCells, !.next = n]]
        : n \in context_size..buffer_size} \cup
    {[kind |-> "DummyWindow", w |-> [size |-> n]] : n \in 0..(context_size + 1)}

\* DummyWindow::available
dummy_available == context_size

MatchFree(win) ==
    IF win.kind = "Window" THEN available(win.w)
    ELSE IF win.kind = "DeflateWindow" THEN dw_available(win.w)
    ELSE dummy_available

\* How many symbols a window can hold at a write position, counted up to
\* context_size: a Window cleared by its constructor holds what was written
\* from the midpoint on, one that was given a context or was flushed holds a
\* whole context; DeflateWindow::size() is next - buffer; a DummyWindow
\* counts them in _size.
MatchHeld(win) ==
    IF win.kind = "Window"
    THEN {context_size} \cup
         (IF win.w.next >= midpoint /\ win.w.next - midpoint < context_size
          THEN {win.w.next - midpoint} ELSE {})
    ELSE IF win.kind = "DeflateWindow"
    THEN {IF win.w.next < context_size THEN win.w.next ELSE context_size}
    ELSE {IF win.w.size < context_size THEN win.w.size ELSE context_size}

OthersIdleMatch ==
    /\ mx = IdleMx /\ sy = IdleSy /\ sc = IdleSc
    /\ pc = <<>> /\ wk = <<>> /\ ch = <<>> /\ reg = <<>>
    /\ sink = <<>> /\ hist = <<>> /\ build = "none"

\* do_block calls copy_match with length <= available()
InitMatch ==
    /\ fn \in {[phase |-> "call", win |-> w, length |-> l, offset |-> o, ok |-> FALSE,
                 pre |-> w, held |-> h]
                : w \in MatchWindows, l \in min_match_length..max_match_lentgh,
                  o \in 1..(context_size + 1), h \in 0..context_size}
    /\ fn.held \in MatchHeld(fn.win)
    /\ fn.length <= MatchFree(fn.win)
    /\ OthersIdleMatch

MatchWindow ==
    /\ fn.phase = "call" /\ fn.win.kind = "Window"
    /\ LET Copied(r) == [fn EXCEPT !.phase = "ret", !.ok = r.ok, !.win.w = r.w]
       IN  fn' = Copied(copy_match(fn.win.w, fn.length, fn.offset))
    /\ UNCHANGED <<mx, sy, sc, pc, wk, ch, reg, sink, hist, build>>

MatchDeflateWindow ==
    /\ fn.phase = "call" /\ fn.win.kind = "DeflateWindow"
    /\ LET Copied(r) == [fn EXCEPT !.phase = "ret", !.ok = r.ok, !.win.w = r.w]
       IN  fn' = Copied(dw_copy_match(fn.win.w, fn.length, fn.offset))
    /\ UNCHANGED <<mx, sy, sc, pc, wk, ch, reg, sink, hist, build>>

MatchDummyWindow ==
    /\ fn.phase = "call" /\ fn.win.kind = "DummyWindow"
    /\ LET Copied(r) == [fn EXCEPT !.phase = "ret", !.ok = r.ok, !.win.w.size = r.size]
       IN  fn' = Copied(DummyCopyMatch(fn.win.w.size, fn.length, fn.offset))
    /\ UNCHANGED <<mx, sy, sc, pc, wk, ch, reg, sink, hist, build>>

NextMatch == MatchWindow \/ MatchDeflateWindow \/ MatchDummyWindow

SpecMatch == InitMatch /\ [][NextMatch]_vars

C17_MatchOffsetChecked ==
    (fn.phase = "ret" /\ (fn.offset > context_size \/ fn.offset > fn.held)) => ~fn.ok

instr_max_value == 99

\* DeflateWindow::push
dw_push(w, c) == [w EXCEPT !.buf = [@ EXCEPT ![Cell(w.next)] = c], !.next = @ + 1]

NewInstrWindow ==
    [buf |-> [i \in 0..(buffer_size - 1) |-> IF i < context_size THEN 63 ELSE 0],
     next |-> context_size,
     buffer_counts |-> [i \in 0..(buffer_size - 1) |-> 0],
     backref_origins |-> [i \in 0..(buffer_size - 1) |->
                            IF i < context_size THEN context_size - i ELSE 0]]

\* InstrDeflateWindow::push
instr_push(w, c) ==
    IF c > instr_max_value \/ c < min_value
    THEN [ok |-> FALSE, w |-> w]
    ELSE [ok |-> TRUE,
          w |-> dw_push([w EXCEPT !.buffer_counts = [@ EXCEPT ![w.next] = 0],
                                  !.backref_origins = [@ EXCEPT ![w.next] = 0]], c)]

(***************************************************************************)
(* SpecPush: push called once with any byte on each window that checks     *)
(* the byte.                                                               *)
(***************************************************************************)
byte_max == 255
MaxPushed == 2

PushWindows ==
    {[kind |-> "Window", w |-> [NewWindow EXCEPT !.next = midpoint + n]] : n \in 0..MaxPushed}
    \cup {[kind |-> "DummyWindow", w |-> [size |-> n]] : n \in 0..MaxPushed}
    \cup {[kind |-> "InstrDeflateWindow", w |-> [NewInstrWindow EXCEPT !.next = @ + n]]
            : n \in 0..MaxPushed}

InitPush ==
    /\ fn \in {[phase |-> "call", win |-> w, c |-> c, ok |-> FALSE, pre |-> w]
                : w \in PushWindows, c \in 0..byte_max}
    /\ OthersIdleMatch

PushWindow ==
    /\ fn.phase = "call" /\ fn.win.kind = "Window"
    /\ LET Pushed(r) == [fn EXCEPT !.phase = "ret", !.ok = r.ok, !.win.w = r.w]
       IN  fn' = Pushed(push(fn.win.w, fn.c))
    /\ UNCHANGED <<mx, sy, sc, pc, wk, ch, reg, sink, hist, build>>

PushDummyWindow ==
    /\ fn.phase = "call" /\ fn.win.kind = "DummyWindow"
    /\ LET Pushed(r) == [fn EXCEPT !.phase = "ret", !.ok = r.ok, !.win.w.size = r.size]
       IN  fn' = Pushed(DummyPush(fn.win.w.size, fn.c))
    /\ UNCHANGED <<mx, sy, sc, pc, wk, ch, reg, sink, hist, build>>

PushInstrWindow ==
    /\ fn.phase = "call" /\ fn.win.kind = "InstrDeflateWindow"
    /\ LET Pushed(r) == [fn EXCEPT !.phase = "ret", !.ok = r.ok, !.win.w = r.w]
       IN  fn' = Pushed(instr_push(fn.win.w, fn.c))
    /\ UNCHANGED <<mx, sy, sc, pc, wk, ch, reg, sink, hist, build>>

NextPush == PushWindow \/ PushDummyWindow \/ PushInstrWindow

SpecPush == InitPush /\ [][NextPush]_vars

\* the window after push appended c to it
PushAppended ==
    IF fn.win.kind = "DummyWindow"
    THEN fn.win.w.size = fn.pre.w.size + 1
    ELSE /\ fn.win.w.next = fn.pre.w.next + 1
         /\ fn.win.w.buf = [fn.pre.w.buf EXCEPT ![Cell(fn.pre.w.next)] = fn.c]

\* C18: on every window that checks bytes, push(c) returns false and leaves
\* the window (contents and size) as it was for c outside min_value..max_value
\* (0x09..0x7E), and returns true and appends c for c inside.
C18_PushChecksAlphabet ==
    fn.phase = "ret" =>
        IF fn.c > max_value \/ fn.c < min_value
        THEN ~fn.ok /\ fn.win = fn.pre
        ELSE fn.ok /\ PushAppended

(***************************************************************************)
(* table_builder::build_decode_table (deflate_decompress.cpp).  lens is    *)
(* the sequence of codeword lengths, one per symbol, each at most          *)
(* max_codeword_len.  The decode table entries the function writes do not  *)
(* enter its result; the counters that drive its loops do.                 *)
(***************************************************************************)
\* len_counts[len]: how many symbols have each codeword length, including 0
LenCounts(lens, max_codeword_len) ==
    [len \in 0..max_codeword_len |-> Cardinality({sym \in 1..Len(lens) : lens[sym] = len})]

\* Mutant of SingleCodeword: any code that leaves half of the codespace
\* is let through.
SingleCodewordAnyLength(remainder, len_counts, max_codeword_len) ==
    remainder = Pow2(max_codeword_len - 1)

\* the last test of the incomplete branch: a single used symbol whose
\* codeword has length 1
SingleCodeword(remainder, len_counts, max_codeword_len) ==
    ~(remainder # Pow2(max_codeword_len - 1) \/ len_counts[1] # 1)

\* for (len = 1; len <= max_codeword_len; len++) { remainder <<= 1;
\* remainder -= len_counts[len]; if (remainder < 0) return false; }
\* gives -1 for the early return
RECURSIVE CodespaceLeft(_, _, _, _)
CodespaceLeft(len_counts, len, max_codeword_len, remainder) ==
    IF len > max_codeword_len THEN remainder
    ELSE IF 2 * remainder - len_counts[len] < 0 THEN 0 - 1
    ELSE CodespaceLeft(len_counts, len + 1, max_codeword_len,
                       2 * remainder - len_counts[len])

\* while (len_counts[codeword_len] == 0) codeword_len++; a length above
\* max_codeword_len is a read past len_counts
RECURSIVE SkipUnusedLengths(_, _, _)
SkipUnusedLengths(len_counts, codeword_len, max_codeword_len) ==
    IF codeword_len > max_codeword_len THEN codeword_len
    ELSE IF len_counts[codeword_len] # 0 THEN codeword_len
    ELSE SkipUnusedLengths(len_counts, codeword_len + 1, max_codeword_len)

\* for (;;) { ...fill the entries of sorted_syms[sym_idx]...;
\* if (++sym_idx == num_syms) return true; len_counts[codeword_len]--;
\* while (len_counts[codeword_len] == 0) codeword_len++; }
RECURSIVE GenerateEntries(_, _, _, _, _)
GenerateEntries(len_counts, codeword_len, sym_idx, num_syms, max_codeword_len) ==
    IF codeword_len > max_codeword_len \/ sym_idx >= num_syms THEN "out_of_bounds"
    ELSE IF sym_idx + 1 = num_syms THEN "true"
    ELSE LET Counted(c) ==
                 GenerateEntries(c, SkipUnusedLengths(c, codeword_len, max_codeword_len),
                                 sym_idx + 1, num_syms, max_codeword_len)
         IN  Counted([len_counts EXCEPT ![codeword_len] = @ - 1])

build_decode_table(lens, max_codeword_len) ==
    LET Built(len_counts) ==
            \* sym_idx = offsets[0], which the sort left at len_counts[0]
            GenerateEntries(len_counts, SkipUnusedLengths(len_counts, 1, max_codeword_len),
                            len_counts[0], Len(lens), max_codeword_len)
        Checked(len_counts, remainder) ==
            IF remainder < 0 THEN "false"
            ELSE IF remainder # 0
            THEN (IF remainder = Pow2(max_codeword_len) THEN "true"
                  ELSE IF ~SingleCodeword(remainder, len_counts, max_codeword_len)
                  THEN "false"
                  ELSE Built(len_counts))
            ELSE Built(len_counts)
        Counted(len_counts) ==
            Checked(len_counts, CodespaceLeft(len_counts, 1, max_codeword_len, 1))
    IN  Counted(LenCounts(lens, max_codeword_len))

(***************************************************************************)
(* SpecTable: build_decode_table called once on any sequence of codeword   *)
(* lengths.                                                                *)
(***************************************************************************)
MaxCodewordLen == 3
MaxNumSyms == 4

InitTable ==
    /\ fn \in {[phase |-> "call", lens |-> l, max_codeword_len |-> m, res |-> "none"]
                : l \in UNION {[1..n -> 0..MaxCodewordLen] : n \in 1..MaxNumSyms},
                  m \in 2..MaxCodewordLen}
    /\ \A sym \in 1..Len(fn.lens) : fn.lens[sym] <= fn.max_codeword_len
    /\ OthersIdleMatch

BuildTable ==
    /\ fn.phase = "call"
    /\ fn' = [fn EXCEPT !.phase = "ret",
                        !.res = build_decode_table(fn.lens, fn.max_codeword_len)]
    /\ UNCHANGED <<mx, sy, sc, pc, wk, ch, reg, sink, hist, build>>

NextTable == BuildTable

SpecTable == InitTable /\ [][NextTable]_vars

\* the codespace the used symbols take, in units of 2^-max_codeword_len
RECURSIVE KraftSum(_, _, _)
KraftSum(lens, sym, max_codeword_len) ==
    IF sym > Len(lens) THEN 0
    ELSE (IF lens[sym] = 0 THEN 0 ELSE Pow2(max_codeword_len - lens[sym]))
         + KraftSum(lens, sym + 1, max_codeword_len)

UsedSymbols(lens) == {sym \in 1..Len(lens) : lens[sym] # 0}

\* C19: build_decode_table returns true exactly when the lengths fill the
\* codespace (Kraft equality), or all are zero, or exactly one symbol is used
\* and its codeword has length 1; it returns false for every other code.
C19_TableBuiltIffValidCode ==
    fn.phase = "ret" =>
        /\ fn.res \in {"true", "false"}
        /\ fn.res = "true" <=>
              \/ KraftSum(fn.lens, 1, fn.max_codeword_len) = Pow2(fn.max_codeword_len)
              \/ UsedSymbols(fn.lens) = {}
              \/ \E sym \in 1..Len(fn.lens) :
                     UsedSymbols(fn.lens) = {sym} /\ fn.lens[sym] = 1

\* A complete code with three codeword lengths was accepted.
C19_Witness ==
    /\ fn.phase = "ret" /\ fn.res = "true"
    /\ fn.lens = <<3, 1, 3, 2>>

\* A singleton code was accepted.
C19_WitnessSingleton ==
    /\ fn.phase = "ret" /\ fn.res = "true"
    /\ fn.lens = <<0, 1, 0>> /\ fn.max_codeword_len = MaxCodewordLen

(***************************************************************************)
(* SpecStream: an InputStream over a few bytes on which ensure_bits<n>,    *)
(* pop_bits(n) and remove_bits(n) are called in any order that keeps the   *)
(* assertion bitsleft >= n of bits() and remove_bits().  consumed counts   *)
(* the bits the caller removed.                                            *)
(***************************************************************************)
MaxStreamBytes == 9
MaxStreamCalls == 4
MaxCopied == 2

\* the bit counts asked for: a single bit, a header field, a byte, the
\* block header and the largest count ensure_bits takes
StreamCounts == {1, 5, 8, block_header_bits, bitbuf_max_ensure}

\* bits(n) masks with (u32(1) << n) - 1, a shift that is defined below the
\* width of u32
u32_width == 32
PopCounts == {n \in StreamCounts : n < u32_width}

StreamInputs == {[i \in 1..n |-> 165] : n \in 1..MaxStreamBytes}

\* The debug build stops at the first failed assertion and reads nothing
\* outside the input; with NDEBUG a read outside the input gives any byte.
StreamBuilds ==
    {[build |-> "debug", oob |-> 0], [build |-> "ndebug", oob |-> 0],
     [build |-> "ndebug", oob |-> 255]}

InitStream ==
    /\ \E in \in StreamInputs, b \in StreamBuilds :
          /\ fn = [phase |-> "run", s |-> NewInputStream(in, b.oob), consumed |-> 0,
                   calls |-> 0, last |-> "none", n |-> 0, before |-> 0,
                   pre |-> NewInputStream(in, b.oob), shift |-> 0 - 1]
          /\ build = b.build
    /\ OthersIdleBlk

\* The largest shift "<< bitsleft" the refill of ensure_bits<n> does on s,
\* -1 when it does not refill.
fill_shift(s, n) ==
    IF have_bits(s, n) \/ in_available(s) < 1 THEN 0 - 1
    ELSE IF in_available(s) >= bitbuf_length \div 8 THEN s.bitsleft
    ELSE fill_bits_bytewise(s).bitsleft - 8

StreamCalled(s, last, n, consumed, shift) ==
    IF s.bad /\ build = "debug"
    THEN [fn EXCEPT !.phase = "abort", !.last = last, !.n = n, !.pre = fn.s,
                    !.calls = @ + 1]
    ELSE [fn EXCEPT !.s = s, !.consumed = consumed, !.calls = @ + 1, !.last = last,
                    !.n = n, !.before = position_bits(fn.s), !.pre = fn.s,
                    !.shift = shift]

StreamEnsure ==
    /\ fn.phase = "run" /\ fn.calls < MaxStreamCalls
    /\ \E n \in StreamCounts :
          LET Ensured(e) == StreamCalled(e.s, IF e.ok THEN "ensure_bits" ELSE "ensure_failed",
                                         n, fn.consumed, fill_shift(fn.s, n))
          IN  fn' = Ensured(ensure_bits(fn.s, n))
    /\ UNCHANGED <<mx, sy, sc, pc, wk, ch, reg, sink, hist, build>>

StreamPop ==
    /\ fn.phase = "run" /\ fn.calls < MaxStreamCalls
    /\ \E n \in PopCounts :
          /\ have_bits(fn.s, n)
          /\ LET Popped(r) == StreamCalled(r.s, "pop_bits", n, fn.consumed + n, 0 - 1)
             IN  fn' = Popped(pop_bits(fn.s, n))
    /\ UNCHANGED <<mx, sy, sc, pc, wk, ch, reg, sink, hist, build>>

StreamRemove ==
    /\ fn.phase = "run" /\ fn.calls < MaxStreamCalls
    /\ \E n \in StreamCounts :
          /\ have_bits(fn.s, n)
          /\ fn' = StreamCalled(remove_bits(fn.s, n), "remove_bits", n, fn.consumed + n,
                                0 - 1)
    /\ UNCHANGED <<mx, sy, sc, pc, wk, ch, reg, sink, hist, build>>

\* align_input(): the bits left of the current byte count as consumed
StreamAlign ==
    /\ fn.phase = "run" /\ fn.calls < MaxStreamCalls
    /\ fn' = StreamCalled(align_input(fn.s), "align_input", 0,
                          8 * ((fn.consumed + 7) \div 8), 0 - 1)
    /\ UNCHANGED <<mx, sy, sc, pc, wk, ch, reg, sink, hist, build>>

\* pop_u16(), called on an aligned stream after the caller's check that the
\* bytes are there (do_uncompressed)
StreamPopU16 ==
    /\ fn.phase = "run" /\ fn.calls < MaxStreamCalls
    /\ fn.s.bitsleft = 0 /\ in_available(fn.s) >= 2
    /\ LET Popped(r) == StreamCalled(r.s, "pop_u16", 2, fn.consumed + 16, 0 - 1)
       IN  fn' = Popped(pop_u16(fn.s))
    /\ UNCHANGED <<mx, sy, sc, pc, wk, ch, reg, sink, hist, build>>

\* copy(out, n), called on an aligned stream with n <= available()
StreamCopy ==
    /\ fn.phase = "run" /\ fn.calls < MaxStreamCalls
    /\ fn.s.bitsleft = 0
    /\ \E n \in 0..MaxCopied :
          /\ in_available(fn.s) >= n
          /\ LET Copied(r) == StreamCalled(r.s, "copy", n, fn.consumed + 8 * n, 0 - 1)
             IN  fn' = Copied(stream_copy(fn.s, n))
    /\ UNCHANGED <<mx, sy, sc, pc, wk, ch, reg, sink, hist, build>>

NextStream ==
    StreamEnsure \/ StreamPop \/ StreamRemove \/ StreamAlign \/ StreamPopU16 \/ StreamCopy

SpecStream == InitStream /\ [][NextStream]_vars

\* no bit past the end of the input has been removed
NoOverrunConsumed == fn.consumed <= 8 * Len(fn.s.in)

\* C20: while no bit past the end of the input has been consumed, a
\* successful ensure_bits<n> leaves position_bits() as it was, pop_bits(n) and
\* remove_bits(n) add exactly n to it, and position_bits() is the number of
\* bits consumed since begin.
C20_PositionCountsConsumedBits ==
    (fn.phase = "run" /\ NoOverrunConsumed) =>
        /\ position_bits(fn.s) = fn.consumed
        /\ fn.last = "ensure_bits" => position_bits(fn.s) = fn.before
        /\ fn.last \in {"pop_bits", "remove_bits"} => position_bits(fn.s) = size_t(fn.before + fn.n)

(***************************************************************************)
(* SpecBack: the candidate loop of sync on the bits of an InputStream.     *)
(* Each step is one turn of the loop: a candidate whose first bit is 1 is  *)
(* skipped, any other is parsed into the DummyWindow with ShouldFail; a    *)
(* parse that is not accepted is undone by dummy_win.clear() and           *)
(* set_position_bits(pos + 1).                                             *)
(***************************************************************************)
MaxBitsSkip == 9

\* InputStream::set_position_bits(p): the stream restarts at bit p with
\* nothing buffered but the rest of the byte that holds bit p; false when p
\* is outside the input.
stream_set_position_bits(s, p) ==
    LET Skipped(e) == [ok |-> e.ok, s |-> IF e.ok THEN remove_bits(e.s, p % 8) ELSE e.s]
    IN  Skipped(ensure_bits([s EXCEPT !.in_next = p \div 8,
                                      !.bitbuf = [i \in 0..(bitbuf_length - 1) |-> 0],
                                      !.bitsleft = 0,
                                      !.overrun_count = 0], 8))

BackStreams ==
    {b \o t : b \in StoredBlocks \cup OtherBlocks,
              t \in {<<>>, <<HeaderByte(0, 0), 1, 0, 254, 255, 66, 67, 68, 69>>}}

\* sync up to its first evaluation of the loop condition
BackStart(in, skip, huff, min_block_size) ==
    LET Ensured(e) ==
            [phase |-> "scan", s |-> e.s, size |-> 0, pos |-> skip,
             max_pos |-> skip + (IF 8 * Len(in) < MaxBitsSkip THEN 8 * Len(in)
                                 ELSE MaxBitsSkip),
             huff |-> huff, min_block_size |-> min_block_size,
             last |-> "none", res |-> "", ret |-> 0,
             parsed |-> e.s, parsed_size |-> 0]
        Positioned(sp) == Ensured(ensure_bits(sp.s, 1))
    IN  Positioned(stream_set_position_bits(NewInputStream(in, 0), skip))

InitBack ==
    /\ fn \in {BackStart(in, skip, h, m)
                : in \in BackStreams, skip \in {0, 3}, h \in BlkHuff, m \in {1, 2}}
    /\ build \in {"debug", "ndebug"}
    /\ OthersIdleBlk

\* the loop condition fails: return 8 * size()
BackEnd ==
    /\ fn.phase = "scan" /\ ~(fn.pos < fn.max_pos)
    /\ fn' = [fn EXCEPT !.phase = "ret", !.ret = 8 * Len(fn.s.in), !.last = "end"]
    /\ UNCHANGED <<mx, sy, sc, pc, wk, ch, reg, sink, hist, build>>

\* assert(pos == position_bits()) fails in the debug build
BackAssert ==
    /\ fn.phase = "scan" /\ fn.pos < fn.max_pos
    /\ build = "debug" /\ fn.pos # position_bits(fn.s)
    /\ fn' = [fn EXCEPT !.phase = "abort", !.last = "assert"]
    /\ UNCHANGED <<mx, sy, sc, pc, wk, ch, reg, sink, hist, build>>

\* if (bits(1)) { remove_bits(1); ensure_bits<1>(); continue; }
BackSkipFinal ==
    /\ fn.phase = "scan" /\ fn.pos < fn.max_pos
    /\ build = "debug" => fn.pos = position_bits(fn.s)
    /\ bits(fn.s, 1) # 0
    /\ LET Ensured(e) == [fn EXCEPT !.s = e.s, !.pos = @ + 1, !.last = "final_bit"]
       IN  fn' = Ensured(ensure_bits(remove_bits(fn.s, 1), 1))
    /\ UNCHANGED <<mx, sy, sc, pc, wk, ch, reg, sink, hist, build>>

\* do_block(dummy_win, ShouldFail{}) and what follows it in the loop body
BackParse ==
    /\ fn.phase = "scan" /\ fn.pos < fn.max_pos
    /\ build = "debug" => fn.pos = position_bits(fn.s)
    /\ bits(fn.s, 1) = 0
    /\ LET Undone(r, sp) ==
               IF ~sp.ok
               THEN [fn EXCEPT !.phase = "ret", !.ret = 8 * Len(fn.s.in), !.s = sp.s,
                               !.size = DummyClear(r.win.size), !.res = r.res,
                               !.last = "failed_last", !.parsed = r.s,
                               !.parsed_size = r.win.size]
               ELSE [fn EXCEPT !.s = sp.s, !.size = DummyClear(r.win.size), !.res = r.res,
                               !.pos = @ + 1, !.last = "failed", !.parsed = r.s,
                               !.parsed_size = r.win.size]
           Accepted(r, sp) ==
               [fn EXCEPT !.phase = "ret", !.ret = fn.pos, !.s = sp.s, !.size = r.win.size,
                          !.res = r.res, !.last = "accepted", !.parsed = r.s,
                          !.parsed_size = r.win.size]
           Parsed(r) ==
               IF r.s.bad /\ build = "debug"
               THEN [fn EXCEPT !.phase = "abort", !.last = "assert"]
               ELSE IF r.res = "SUCCESS" /\ r.win.size >= fn.min_block_size
               THEN Accepted(r, stream_set_position_bits(r.s, fn.pos))
               ELSE Undone(r, stream_set_position_bits(r.s, fn.pos + 1))
       IN  fn' = Parsed(do_block_bits(ADummyWindow(fn.size), fn.s, fn.huff))
    /\ UNCHANGED <<mx, sy, sc, pc, wk, ch, reg, sink, hist, build>>

NextBack == BackEnd \/ BackAssert \/ BackSkipFinal \/ BackParse

SpecBack == InitBack /\ [][NextBack]_vars

\* Bit q of the input, zero past its end.
InputBit(in, q) == IF q < 8 * Len(in) THEN StreamBitAt(in, q) ELSE 0

\* The stream holds nothing but the input from bit q on: the buffered bits
\* are the input's bits q, q+1, ..., the bytes counted as overrun are those
\* buffered past the end, and the read position follows the buffered bits.
StreamFreshAt(st, q) ==
    /\ \A i \in 0..(bitbuf_length - 1) :
           st.bitbuf[i] = IF i < st.bitsleft THEN InputBit(st.in, q + i) ELSE 0
    /\ 8 * (st.in_next + st.overrun_count) - st.bitsleft = q
    /\ st.overrun_count = 0 \/ st.in_next = Len(st.in)

BufferedBitPos(i) == fn.consumed + i

\* C22: when ensure_bits<n>() returns true the buffer holds at least n bits
\* and every buffered bit that lies past the end of the input is zero; it
\* returns false only with fewer than n bits buffered and no unread input
\* byte left.
C22_EnsureBitsGuarantee ==
    /\ (fn.phase = "run" /\ fn.last = "ensure_bits") =>
          /\ fn.s.bitsleft >= fn.n
          /\ \A i \in 0..(bitbuf_length - 1) :
                 (i < fn.s.bitsleft /\ BufferedBitPos(i) >= 8 * Len(fn.s.in))
                     => fn.s.bitbuf[i] = 0
    /\ (fn.phase = "run" /\ fn.last = "ensure_failed") =>
          /\ fn.pre.bitsleft < fn.n
          /\ fn.pre.in_next = Len(fn.pre.in)

\* C26: begin <= in_next <= in_end after every sequence of ensure_bits,
\* pop_bits, align_input, pop_u16 and copy calls, and at every align_input
\* the overrun count is at most the number of whole buffered bytes.
C26_ReadPointerInsideInput ==
    /\ fn.s.in_next >= 0 /\ fn.s.in_next <= Len(fn.s.in)
    /\ fn.last = "align_input" => fn.pre.overrun_count <= fn.pre.bitsleft \div 8

C28_AlignInputRoundsUp ==
    (fn.phase = "run" /\ fn.last = "align_input" /\ NoOverrunConsumed) =>
        /\ fn.s.bitsleft = 0
        /\ \A i \in 0..(bitbuf_length - 1) : fn.s.bitbuf[i] = 0
        /\ 8 * fn.s.in_next = fn.consumed
        /\ position_bits(fn.s) = fn.consumed

(***************************************************************************)
(* InputStream::check_ascii on its own: a stream over a few bytes around   *)
(* the ends of the accepted alphabet, read up to some byte, then one call. *)
(***************************************************************************)
MaxAsciiLen == 2

\* '\t' - 1, '\t', 'c', 'd', '~', '~' + 1
AsciiBytes == {min_value - 1, min_value, check_ascii_max, check_ascii_max + 1,
               max_value, max_value + 1}

AsciiInputs == UNION {[1..n -> AsciiBytes] : n \in 0..MaxAsciiLen}

InitAscii ==
    /\ \E in \in AsciiInputs :
          \E k \in 0..Len(in) :
              fn = [phase |-> "ready", s |-> stream_copy(NewInputStream(in, 0), k).s,
                    pre |-> stream_copy(NewInputStream(in, 0), k).s, n |-> 0, ok |-> FALSE]
    /\ build = "debug"
    /\ OthersIdleBlk

\* bool ok = in.check_ascii(n)
AsciiCheck ==
    /\ fn.phase = "ready"
    /\ \E n \in 0..(MaxAsciiLen + 1) :
          fn' = [fn EXCEPT !.phase = "checked", !.n = n, !.ok = check_ascii(fn.s, n)]
    /\ UNCHANGED <<mx, sy, sc, pc, wk, ch, reg, sink, hist, build>>

NextAscii == AsciiCheck

SpecAscii == InitAscii /\ [][NextAscii]_vars

\* C29: check_ascii(n) is true exactly when at least n unread bytes remain
\* and each of the next n bytes is in '\t'..'~' (0x09..0x7E), the bytes
\* 'd'..'~' included; the call consumes nothing.
C29_CheckAsciiAcceptsAlphabet ==
    fn.phase = "checked" =>
        /\ fn.ok <=> /\ fn.n <= Len(fn.s.in) - fn.pre.in_next
                     /\ \A i \in 1..fn.n :
                            /\ fn.s.in[fn.pre.in_next + i] >= min_value
                            /\ fn.s.in[fn.pre.in_next + i] <= max_value
        /\ fn.s = fn.pre

(***************************************************************************)
(* The match-or-end-of-block part of do_block's Huffman loop, on one       *)
(* decoded litlen entry: the length is the entry's base plus its extra     *)
(* bits, then the combined test, the flush, the offset and copy_match.     *)
(***************************************************************************)
HUFFDEC_END_OF_BLOCK_LENGTH == 0

\* litlen_decode_results, scaled like the window: end of block, then the
\* lengths 3 .. max_match_lentgh as a base and a number of extra bits.
LengthEntries ==
    {[base |-> HUFFDEC_END_OF_BLOCK_LENGTH, extra |-> 0],
     [base |-> min_match_length, extra |-> 0],
     [base |-> min_match_length + 1, extra |-> 1]}

\* The output spans a WindowToBuffer was cleared with: none left, one cache
\* line, the whole buffer.
LenCaps == {0, cache_line_symbols, buffer_virtual_size}

LenWindows ==
    {[kind |-> "Window", w |-> [NewWindow EXCEPT !.buf = DistinctCells, !.next = n]]
        : n \in midpoint..waterline} \cup
    {[kind |-> "WindowToBuffer",
      w |-> [NewWindow EXCEPT !.buf = DistinctCells, !.next = n, !.cap = c]]
        : n \in midpoint..waterline, c \in LenCaps} \cup
    {[kind |-> "DummyWindow", w |-> [size |-> n]] : n \in {0, context_size}}

\* window.available()
LenFree(win) == IF win.kind = "DummyWindow" THEN dummy_available ELSE available(win.w)

\* window.flush()
LenFlush(win) ==
    IF win.kind = "Window" THEN [win EXCEPT !.w = WindowFlush(win.w)]
    ELSE IF win.kind = "WindowToBuffer" THEN [win EXCEPT !.w = WindowToBufferFlush(win.w)]
    ELSE win

\* window.copy_match(length, offset)
LenCopyMatch(win, length, offset) ==
    IF win.kind = "DummyWindow"
    THEN LET Done(r) == [ok |-> r.ok, win |-> [win EXCEPT !.w.size = r.size]]
         IN  Done(DummyCopyMatch(win.w.size, length, offset))
    ELSE LET Done(r) == [ok |-> r.ok, win |-> [win EXCEPT !.w = r.w]]
         IN  Done(copy_match(win.w, length, offset))

\* "length - 1 >= window.available()" with length a u32: 0 - 1 wraps to the
\* largest value (the modulus is the one size_t is modelled with).
LengthTest(length, free) == (length - 1) % size_modulus >= free

\* From the decoded length to the end of the loop body.  taken: the test's
\* branch was entered; flushed: flush() was called; copied: copy_match was
\* called, with free_at_copy symbols available; bad: an assertion was false.
MatchOrEnd(win, length, offset) ==
    LET taken == LengthTest(length, LenFree(win))
        Copied(w1, flushed, r) ==
            [taken |-> taken, flushed |-> flushed, copied |-> TRUE,
             free_at_copy |-> LenFree(w1), win |-> r.win,
             res |-> IF r.ok THEN "MATCH" ELSE "INVALID_MATCH",
             bad |-> length > max_match_lentgh \/ length > LenFree(w1)
                        \/ length < min_match_length]
        Flushed(w1, flushed) == Copied(w1, flushed, LenCopyMatch(w1, length, offset))
    IN  IF taken /\ length = HUFFDEC_END_OF_BLOCK_LENGTH
        THEN [taken |-> TRUE, flushed |-> FALSE, copied |-> FALSE, free_at_copy |-> 0,
              win |-> win, res |-> "SUCCESS", bad |-> FALSE]
        ELSE IF taken THEN Flushed(LenFlush(win), TRUE)
        ELSE Flushed(win, FALSE)

InitLen ==
    /\ \E w \in LenWindows, b \in {"debug", "ndebug"} :
          /\ fn = [phase |-> "decode", win |-> w, pre |-> w, length |-> 0, offset |-> 0,
                   taken |-> FALSE, flushed |-> FALSE, copied |-> FALSE,
                   free_at_copy |-> 0, res |-> ""]
          /\ build = b
    /\ OthersIdleBlk

\* The loop body from "Match or end-of-block" on, for one entry, its extra
\* bits and an offset.  The DummyWindow's available() is the context size,
\* which in the source is above every length.
LenDecoded ==
    /\ fn.phase = "decode"
    /\ \E e \in LengthEntries, o \in 1..context_size :
          \E x \in 0..(Pow2(e.extra) - 1) :
              /\ fn.win.kind = "DummyWindow" => e.base + x <= dummy_available
              /\ LET Done(r) ==
                         IF r.bad /\ build = "debug"
                         THEN [fn EXCEPT !.phase = "abort", !.length = e.base + x,
                                         !.offset = o, !.taken = r.taken,
                                         !.flushed = r.flushed]
                         ELSE [fn EXCEPT !.phase = "ret", !.length = e.base + x,
                                         !.offset = o, !.taken = r.taken,
                                         !.flushed = r.flushed, !.copied = r.copied,
                                         !.free_at_copy = r.free_at_copy,
                                         !.win = r.win, !.res = r.res]
                 IN  fn' = Done(MatchOrEnd(fn.win, e.base + x, o))
    /\ UNCHANGED <<mx, sy, sc, pc, wk, ch, reg, sink, hist, build>>

NextLen == LenDecoded

SpecLen == InitLen /\ [][NextLen]_vars

\* C30: the branch of "length - 1 >= available()" is taken exactly when the
\* length is 0 or above available(); length 0 ends the block without a
\* flush; a match of 3 <= length <= available() is copied without a flush; a
\* match longer than available() is copied only after a flush that makes
\* available() >= length; no length other than 3..max_match_lentgh reaches
\* copy_match.
C30_LengthTestBranches ==
    fn.phase = "ret" =>
        /\ fn.taken <=> (fn.length = HUFFDEC_END_OF_BLOCK_LENGTH
                            \/ fn.length > LenFree(fn.pre))
        /\ fn.length = HUFFDEC_END_OF_BLOCK_LENGTH =>
               (~fn.flushed /\ ~fn.copied /\ fn.res = "SUCCESS" /\ fn.win = fn.pre)
        /\ (fn.length >= min_match_length /\ fn.length <= LenFree(fn.pre)) =>
               (fn.copied /\ ~fn.flushed)
        /\ (fn.copied /\ fn.length > LenFree(fn.pre)) =>
               (fn.flushed /\ fn.free_at_copy >= fn.length)
        /\ fn.copied => (fn.length >= min_match_length /\ fn.length <= max_match_lentgh)

(***************************************************************************)
(* DeflateThreadBase::decompress_loop on the bits of an InputStream, with  *)
(* the downstream worker publishing the stop position at any time.         *)
(*   stop_after  _stop_after                                               *)
(*   at          the bit of the input where the next block starts          *)
(*   from        the bit where the block of the last turn starts           *)
(*   seen, read  position_bits() and the stop position of the last turn    *)
(***************************************************************************)
\* unset_stop_pos = ~0UL, the largest size_t
size_t_max == size_modulus - 1

\* two static Huffman blocks in one byte: a non-final one in bits 0..2 and
\* a final one in bits 3..5
TwoHuffmanBlocks == HeaderByte(0, DEFLATE_BLOCKTYPE_STATIC_HUFFMAN)
                        + 8 * HeaderByte(1, DEFLATE_BLOCKTYPE_STATIC_HUFFMAN)

\* a non-final stored block of len letters
LetterBlock(len) ==
    <<HeaderByte(0, DEFLATE_BLOCKTYPE_UNCOMPRESSED), len, 0, 255 - len, 255>>
        \o [i \in 1..len |-> 65 + i]

LoopStreams ==
    {<<TwoHuffmanBlocks>> \o t : t \in {<<>>, LetterBlock(MaxStoredLen)}} \cup
    {LetterBlock(len) \o <<TwoHuffmanBlocks>> \o t
        : len \in 0..MaxStoredLen, t \in {<<>>, LetterBlock(MaxStoredLen)}}

\* Where the block that starts at bit p of the input ends.
BlockEnd(in, p) ==
    IF StreamBitAt(in, p + 1) + 2 * StreamBitAt(in, p + 2) = DEFLATE_BLOCKTYPE_UNCOMPRESSED
    THEN 8 * (RoundUp(p + 3, 8) \div 8 + 4 + in[RoundUp(p + 3, 8) \div 8 + 1])
    ELSE p + 3

InitLoop ==
    /\ \E in \in LoopStreams, b \in {"debug", "ndebug"} :
          /\ fn = [phase |-> "loop", s |-> NewInputStream(in, 0),
                   win |-> AWindow(WindowWithFree(waterline - midpoint)),
                   huff |-> [dyn_ok |-> TRUE, ops |-> <<Lit(65)>>],
                   stop_after |-> size_t_max, at |-> 0, from |-> 0, seen |-> 0,
                   read |-> 0,
                   last |-> "none", res |-> "", pre |-> NewInputStream(in, 0)]
          /\ build = b
    /\ OthersIdleBlk

\* set_end_block(synced_pos), called by the downstream worker
LoopSetEndBlock ==
    /\ fn.phase = "loop" /\ fn.stop_after = size_t_max
    /\ \E synced_pos \in 1..(8 * Len(fn.s.in)) :
          fn' = [fn EXCEPT !.stop_after = synced_pos]
    /\ UNCHANGED <<mx, sy, sc, pc, wk, ch, reg, sink, hist, build>>

\* a turn of the loop that finds position_bits() >= get_stop_pos()
LoopCaughtUp ==
    /\ fn.phase = "loop"
    /\ position_bits(fn.s) >= fn.stop_after
    /\ fn' = [fn EXCEPT !.phase = "ret", !.res = "CAUGHT_UP_DOWNSTREAM",
                        !.stop_after = size_t_max, !.last = "caught",
                        !.from = fn.at, !.seen = position_bits(fn.s), !.read = fn.stop_after,
                        !.pre = fn.s]
    /\ UNCHANGED <<mx, sy, sc, pc, wk, ch, reg, sink, hist, build>>

\* a turn of the loop that goes on to do_block
LoopBlock ==
    /\ fn.phase = "loop"
    /\ ~(position_bits(fn.s) >= fn.stop_after)
    /\ LET Parsed(r) ==
               IF r.s.bad /\ build = "debug"
               THEN [fn EXCEPT !.phase = "abort", !.res = "ABORT"]
               ELSE [fn EXCEPT !.phase = IF r.res = "SUCCESS" THEN "loop" ELSE "ret",
                               !.res = r.res, !.s = r.s, !.win = r.win,
                               !.at = BlockEnd(fn.s.in, fn.at), !.last = "parsed",
                               !.from = fn.at, !.seen = position_bits(fn.s), !.read = fn.stop_after,
                               !.pre = fn.s]
       IN  fn' = Parsed(do_block_bits(fn.win, fn.s, fn.huff))
    /\ UNCHANGED <<mx, sy, sc, pc, wk, ch, reg, sink, hist, build>>

NextLoop == LoopSetEndBlock \/ LoopCaughtUp \/ LoopBlock

SpecLoop == InitLoop /\ [][NextLoop]_vars

\* C25: a turn of decompress_loop reads the stop position once and returns
\* CAUGHT_UP_DOWNSTREAM, without parsing, exactly when the bit position of
\* the block boundary it is at is at or beyond the stop position it read: no
\* block that starts at or after a stop position visible at its boundary is
\* parsed.
C25_StopsAtVisibleStop ==
    /\ (fn.phase = "ret" /\ fn.last = "caught") => (fn.from >= fn.read /\ fn.s = fn.pre)
    /\ (fn.phase # "abort" /\ fn.last = "parsed") => fn.from < fn.read

(***************************************************************************)
(* The program (programs/gzip.c): tmain runs decompress_file on every      *)
(* input file and turns the results into the exit status.                  *)
(*   seen   what happened to each file processed so far                    *)
(*   ret    tmain's ret                                                    *)
(* A file is "ok" (a valid gzip file), "warning" (skipped: not a regular   *)
(* file, hard links, no suffix), "error" (not in gzip format) or           *)
(* "corrupt" (a valid gzip header, then a deflate stream on which a        *)
(* worker's parse fails).                                                  *)
(***************************************************************************)
MaxFiles == 3

FileKinds == {"ok", "warning", "error", "corrupt"}

\* the values an int that was never assigned can have
IndeterminateInts == {0, 1, 0 - 1, 0 - 2}

\* libdeflate_gzip_decompress with more than one thread: a header that is
\* not gzip returns BAD_DATA before any thread starts; a worker that meets
\* an error runs into "assert(false)" (the debug build aborts, the NDEBUG
\* build goes on); after the joins the result is LIBDEFLATE_SUCCESS.
libdeflate_gzip_decompress(kind) ==
    IF kind = "error" THEN "LIBDEFLATE_BAD_DATA"
    ELSE IF kind = "corrupt" /\ build = "debug" THEN "abort"
    ELSE "LIBDEFLATE_SUCCESS"

\* do_decompress: ret is assigned on the error paths only (the full_write
\* that assigned it on success is commented out)
do_decompress(result, unassigned) ==
    IF result = "LIBDEFLATE_INSUFFICIENT_SPACE" THEN 0 - 1
    ELSE IF result # "LIBDEFLATE_SUCCESS" THEN 0 - 1
    ELSE unassigned

\* decompress_file: -2 for a skipped file, else do_decompress's ret when it
\* is not 0, else xclose's
decompress_file(kind, unassigned) ==
    IF kind = "warning" THEN 0 - 2
    ELSE LET Done(ret) == IF ret # 0 THEN ret ELSE 0
         IN  Done(do_decompress(libdeflate_gzip_decompress(kind), unassigned))

\* a | b on int, for the values met here (-1 is all ones)
RECURSIVE IntOr(_, _)
IntOr(a, b) ==
    IF a = 0 - 1 \/ b = 0 - 1 THEN 0 - 1
    ELSE IF a = 0 /\ b = 0 THEN 0
    ELSE BitOr(a % 2, b % 2) + 2 * IntOr(a \div 2, b \div 2)

\* "if (ret != 0 && ret != 2) ret = 1; return ret;"
exit_status(ret) == IF ret # 0 /\ ret # 2 THEN 1 ELSE ret

InitExit ==
    /\ fn = [phase |-> "files", seen |-> <<>>, ret |-> 0, status |-> 0]
    /\ build \in {"debug", "ndebug"}
    /\ OthersIdleBlk

\* "ret |= -decompress_file(d, argv[i], &options)" for one more file
ExitDecompressFile ==
    /\ fn.phase = "files" /\ Len(fn.seen) < MaxFiles
    /\ \E kind \in FileKinds, unassigned \in IndeterminateInts :
          fn' = IF libdeflate_gzip_decompress(kind) = "abort"
                THEN [fn EXCEPT !.phase = "abort", !.seen = Append(@, kind)]
                ELSE [fn EXCEPT !.seen = Append(@, kind),
                                !.ret = IntOr(@, 0 - decompress_file(kind, unassigned))]
    /\ UNCHANGED <<mx, sy, sc, pc, wk, ch, reg, sink, hist, build>>

\* after the last file: the exit status
ExitReturn ==
    /\ fn.phase = "files" /\ Len(fn.seen) >= 1
    /\ fn' = [fn EXCEPT !.phase = "exit", !.status = exit_status(fn.ret)]
    /\ UNCHANGED <<mx, sy, sc, pc, wk, ch, reg, sink, hist, build>>

NextExit == ExitDecompressFile \/ ExitReturn

SpecExit == InitExit /\ [][NextExit]_vars

SawKind(k) == \E i \in 1..Len(fn.seen) : fn.seen[i] = k

\* C24: the exit status is 1 when any file produced an error (a corrupt
\* stream found by a worker thread included), else 2 when any file produced
\* a warning, else 0.
C24_ExitStatus ==
    fn.phase = "exit" =>
        fn.status = IF SawKind("error") \/ SawKind("corrupt") THEN 1
                    ELSE IF SawKind("warning") THEN 2 ELSE 0

(***************************************************************************)
(* Termination of the threads.  A thread that is not blocked is scheduled: *)
(* the step that makes a waited-for condition true notifies the waiting    *)
(* thread, which then only needs the mutex.                                *)
(***************************************************************************)
MaxWorkers == 3

\* Thread t is blocked: at the start barrier, in wait_for_context_borrow
\* (go, set_initial_context, the predicate of the wide loop, the
\* destructor), on _mut in set_context, or in get_context.
Blocked(t) ==
    \/ pc[t] = "barrier" /\ reg.n_ready # nthreads
    \/ pc[t] \in {"go", "init_ctx", "borrow_wait", "short_wait", "dtor"}
          /\ ~wait_for_context_borrow(ch[t])
    \/ pc[t] \in {"post", "publish"} /\ ch[t].lock # NoThread
    \/ pc[t] = "get_prev" /\ ~CanGetContext(ch[LastWorker])
    \/ pc[t] = "get_ctx" /\ ~CanGetContext(ch[t - 1])
    \/ pc[t] = "self_get" /\ ~CanGetContext(ch[t])

CanRun(t) == t \in Workers /\ ~reg.aborted /\ pc[t] # "done" /\ ~Blocked(t)

\* thread t took a step
Ran(t) == t \in Workers /\ (pc'[t] # pc[t] \/ wk'[t] # wk[t])

\* weak fairness for every thread
FairScheduling ==
    \A t \in 0..(MaxWorkers - 1) : []<>(~CanRun(t)) \/ []<><<Ran(t)>>_vars

\* the assertions of go() that fail when a sync or a block parse fails
ParseFailures == {"FirstBlock::go", "sync_bitpos", "wide_result", "narrow_result"}

\* Under fair scheduling every worker finishes unless the process is aborted
\* or an assertion failed.
FinishUnlessAsserted ==
    FairScheduling => <>(AllDone \/ reg.aborted \/ hist.asserts # {})

\* C23: when every sync succeeded and every block parsed, the workers can
\* still finish: either all of them are done and destroyed, or one of them
\* can run, so that under fair scheduling nobody is left forever at the start
\* barrier, in get_context, in wait_for_context_borrow or in its destructor
\* and the joins return.
C23_AllWorkersFinish ==
    hist.asserts \cap ParseFailures = {} =>
        (AllDone \/ \E t \in Workers : CanRun(t))

(***************************************************************************)
(* SpecBuf: a WindowToBuffer cleared over an output span that is large     *)
(* enough, seeded with a context, then filled by do_block's loop (literals *)
(* and matches, with the flushes the loop makes) and by the copies of      *)
(* stored blocks, and ended with final_flush.                              *)
(*   w        the window                                                   *)
(*   logical  the context followed by the symbols decoded since clear()    *)
(*   n        the number of codewords and stored copies so far             *)
(*   flushes  the number of flush() calls that copied something            *)
(***************************************************************************)
MaxBufOps == 5

BufOps == {Lit(65), Lit(66), Match(3, 1), Match(4, 2), Match(5, 4)}
BufStored == {<<67>>, <<68, 69>>}
BufContext == [i \in 1..context_size |-> 69 + i]

\* What a match of DEFLATE appends to the output: length symbols, each the
\* one offset places before it.
RECURSIVE LogicalMatch(_, _, _)
LogicalMatch(out, length, offset) ==
    IF length = 0 THEN out
    ELSE LogicalMatch(Append(out, out[Len(out) - offset + 1]), length - 1, offset)

Decoded(logical) == SubSeq(logical, context_size + 1, Len(logical))

InitBuf ==
    /\ fn = [phase |-> "decode",
             w |-> SeedConcrete(WindowToBufferClear(NewWindow, buffer_virtual_size),
                                BufContext),
             logical |-> BufContext, n |-> 0, flushes |-> 0, ok |-> TRUE]
    /\ build \in {"debug", "ndebug"}
    /\ OthersIdleBlk

\* One codeword of a Huffman block: the literal or the match branch of
\* do_block's loop, with its flush.
BufCodeword ==
    /\ fn.phase = "decode"
    /\ fn.n < MaxBufOps
    /\ \E op \in BufOps :
          \E r \in {HuffmanLoop(fn.w, <<op>>, 1, TRUE)} :
              /\ r.res = "SUCCESS"
              /\ fn' = [fn EXCEPT !.w = r.w, !.n = @ + 1,
                                  !.flushes = @ + (IF Len(r.w.out) > Len(fn.w.out)
                                                   THEN 1 ELSE 0),
                                  !.logical = IF op.k = "lit" THEN Append(@, op.c)
                                              ELSE LogicalMatch(@, op.len, op.off)]
    /\ UNCHANGED <<mx, sy, sc, pc, wk, ch, reg, sink, hist, build>>

\* Window::copy for a stored block whose bytes pass check_ascii and fit
\* (assert(available() >= length)): "in.copy(next, length); next += length".
BufCopy ==
    /\ fn.phase = "decode"
    /\ fn.n < MaxBufOps
    /\ \E bytes \in BufStored :
          /\ available(fn.w) >= Len(bytes)
          /\ fn' = [fn EXCEPT !.w = WriteSpan([fn.w EXCEPT !.next = @ + Len(bytes)],
                                              fn.w.next, bytes),
                              !.n = @ + 1,
                              !.logical = @ \o bytes]
    /\ UNCHANGED <<mx, sy, sc, pc, wk, ch, reg, sink, hist, build>>

\* final_flush; its assertion "_in_pos <= Base::next" aborts the debug build.
BufFinalFlush ==
    /\ fn.phase = "decode"
    /\ \E r \in {final_flush(fn.w)} :
          fn' = IF fn.w.in_pos > fn.w.next /\ build = "debug"
                THEN [fn EXCEPT !.phase = "abort"]
                ELSE [fn EXCEPT !.phase = "flushed", !.w = r.w, !.ok = r.ok]
    /\ UNCHANGED <<mx, sy, sc, pc, wk, ch, reg, sink, hist, build>>

NextBuf == BufCodeword \/ BufCopy \/ BufFinalFlush

SpecBuf == InitBuf /\ [][NextBuf]_vars

\* C31: after final_flush the output span holds exactly the symbols decoded
\* since clear(), each once and in decoding order.
C31_OutputIsDecodedSymbols ==
    fn.phase = "flushed" => (fn.ok /\ fn.w.out = Decoded(fn.logical))

(***************************************************************************)
(* SpecCtx: a Window or a DeflateWindow that holds an inherited context,   *)
(* filled by do_block's loop and by the copies of stored blocks.           *)
(*   win      the window                                                   *)
(*   logical  the inherited context followed by the decoded symbols        *)
(*   flushed  the last step called flush()                                 *)
(*   before, after  current context right before and right after that call *)
(*   last     the codeword of the last step                                *)
(***************************************************************************)
MaxCtxOps == 4

\* DeflateWindow::flush(keep_size = context_size)
dw_flush(w) ==
    [w EXCEPT !.buf = [a \in 0..(buffer_size - 1) |->
                          IF a < context_size THEN w.buf[w.next - context_size + a]
                          ELSE w.buf[a]],
              !.next = context_size]

\* the assertions of DeflateWindow::flush
dw_flush_asserts(w) == w.next > context_size /\ context_size <= w.next - context_size

CtxWindows ==
    {[kind |-> "Window", w |-> SeedConcrete(WindowClear(NewWindow), BufContext)],
     [kind |-> "DeflateWindow",
      w |-> WriteSpan([NewWindow EXCEPT !.next = context_size], 0, BufContext)]}

CtxFree(win) == IF win.kind = "Window" THEN available(win.w) ELSE dw_available(win.w)

CtxFlush(win) ==
    IF win.kind = "Window" THEN [win EXCEPT !.w = WindowFlush(win.w)]
    ELSE [win EXCEPT !.w = dw_flush(win.w)]

\* window.push(c) / window.copy_match(length, offset)
CtxStore(win, op) ==
    IF win.kind = "Window"
    THEN (IF op.k = "lit" THEN push(win.w, op.c) ELSE copy_match(win.w, op.len, op.off))
    ELSE (IF op.k = "lit" THEN [ok |-> TRUE, w |-> dw_push(win.w, op.c)]
          ELSE dw_copy_match(win.w, op.len, op.off))

LastContext(logical) == SubSeq(logical, Len(logical) - context_size + 1, Len(logical))

InitCtx ==
    /\ fn \in {[phase |-> "decode", win |-> w, logical |-> BufContext, n |-> 0,
                 flushed |-> FALSE, before |-> BufContext, after |-> BufContext,
                 last |-> Lit(0)] : w \in CtxWindows}
    /\ OthersIdleMatch

\* One codeword of a Huffman block: "if (available() == 0) flush()" or
\* "if (length - 1 >= available()) flush()", then push or copy_match.
CtxCodeword ==
    /\ fn.phase = "decode"
    /\ fn.n < MaxCtxOps
    /\ \E op \in BufOps :
          LET need == IF op.k = "lit" THEN 1 ELSE op.len
              flush == need - 1 >= CtxFree(fn.win)
              w1 == IF flush THEN CtxFlush(fn.win) ELSE fn.win
          IN  /\ (flush /\ fn.win.kind = "DeflateWindow") => dw_flush_asserts(fn.win.w)
              /\ need <= CtxFree(w1)
              /\ \E r \in {CtxStore(w1, op)} :
                    /\ r.ok
                    /\ fn' = [fn EXCEPT !.win.w = r.w, !.n = @ + 1, !.last = op,
                                        !.flushed = flush,
                                        !.before = current_context(fn.win.w),
                                        !.after = current_context(w1.w),
                                        !.logical = IF op.k = "lit" THEN Append(@, op.c)
                                                    ELSE LogicalMatch(@, op.len, op.off)]
    /\ UNCHANGED <<mx, sy, sc, pc, wk, ch, reg, sink, hist, build>>

\* Window::copy / DeflateWindow::copy for a stored block that fits
CtxCopy ==
    /\ fn.phase = "decode"
    /\ fn.n < MaxCtxOps
    /\ \E bytes \in BufStored :
          /\ CtxFree(fn.win) >= Len(bytes)
          /\ fn' = [fn EXCEPT !.win.w = WriteSpan([fn.win.w EXCEPT !.next = @ + Len(bytes)],
                                                  fn.win.w.next, bytes),
                              !.n = @ + 1, !.flushed = FALSE, !.last = Lit(0),
                              !.logical = @ \o bytes]
    /\ UNCHANGED <<mx, sy, sc, pc, wk, ch, reg, sink, hist, build>>

NextCtx == CtxCodeword \/ CtxCopy

SpecCtx == InitCtx /\ [][NextCtx]_vars

\* C32: the context_size symbols before the write position are the last
\* context_size symbols of the logical output, and a flush() changes none of
\* them, so the match copied right after a flush reads what it would have
\* read before it.
C32_ContextIsLastSymbols ==
    fn.phase = "decode" =>
        /\ current_context(fn.win.w) = LastContext(fn.logical)
        /\ fn.flushed => fn.after = fn.before

\* A match that reaches back over the whole context, copied right after a
\* flush of each window.
C32_Witness ==
    /\ fn.phase = "decode" /\ fn.flushed /\ fn.win.kind = "Window"
    /\ fn.last.k = "match" /\ fn.last.off = context_size

C32_WitnessDeflateWindow ==
    /\ fn.phase = "decode" /\ fn.flushed /\ fn.win.kind = "DeflateWindow"
    /\ fn.last.k = "match" /\ fn.last.off = context_size

(***************************************************************************)
(* C33: the context of worker 0 at the start of a later section.           *)
(***************************************************************************)
\* Worker 0 is about to parse the first block of chunk 0 of a section s >= 1:
\* go() has set the position and cleared the window, no block is parsed yet.
FirstAtResume ==
    /\ pc[0] = "loop" /\ wk[0].section_idx >= 1
    /\ wk[0].pos = wk[0].resume_bitpos /\ wk[0].window.next = midpoint

\* C33: when worker 0 starts chunk 0 of a section s >= 1, the context_size
\* symbols before its write position are the context the last worker
\* published for section s - 1.
C33_ResumeContextIsPublished ==
    FirstAtResume =>
        current_context(wk[0].window)
            = hist.published[LastWorker][wk[0].section_idx].context

(***************************************************************************)
(* SpecLens: the loop of prepare_dynamic that expands the codeword lengths *)
(* of a dynamic block into _decompressor.u.l.lens.  Only the indices count *)
(* here:                                                                   *)
(*   i        the loop variable                                            *)
(*   presym   the precode symbol of the last turn                          *)
(*   lo, hi   the first and the last index of lens the last turn wrote     *)
(*   read     the index of lens the last turn read, -1 when none           *)
(***************************************************************************)
DEFLATE_NUM_LITLEN_SYMS == 288
DEFLATE_NUM_OFFSET_SYMS == 32
DEFLATE_MAX_LENS_OVERRUN == 137

\* "len_t lens[DEFLATE_NUM_LITLEN_SYMS + DEFLATE_NUM_OFFSET_SYMS +
\*             DEFLATE_MAX_LENS_OVERRUN]"
lens_size == DEFLATE_NUM_LITLEN_SYMS + DEFLATE_NUM_OFFSET_SYMS + DEFLATE_MAX_LENS_OVERRUN

\* "num_litlen_syms = pop_bits(5) + 257", "num_offset_syms = pop_bits(5) + 1"
num_litlen_syms(hlit) == hlit + 257
num_offset_syms(hdist) == hdist + 1

\* Mutant of RepeatZeroLong: one zero more than the extra bits ask for.
RepeatZeroLongOneMore(extra) == 12 + extra

\* "rep_count = 3 + pop_bits(2)", "3 + pop_bits(3)", "11 + pop_bits(7)"
RepeatPrevious(extra) == 3 + extra
RepeatZeroShort(extra) == 3 + extra
RepeatZeroLong(extra) == 11 + extra

\* The 5-bit fields and the 7-bit repeat field at their ends.
HeaderFields == {0, 31}
LongRepeatFields == {0, 1, 126, 127}

InitLens ==
    /\ fn \in {[phase |-> "expand", total |-> num_litlen_syms(l) + num_offset_syms(d),
                 i |-> 0, presym |-> 0, lo |-> 0, hi |-> 0 - 1, read |-> 0 - 1]
                : l \in HeaderFields, d \in HeaderFields}
    /\ OthersIdleMatch

LensTurn(presym, lo, hi, read, i1) ==
    fn' = [fn EXCEPT !.presym = presym, !.lo = lo, !.hi = hi, !.read = read, !.i = i1]

\* "if (presym < 16) { lens[i++] = presym; continue; }"
LensExplicit ==
    /\ fn.phase = "expand" /\ fn.i < fn.total
    /\ LensTurn(0, fn.i, fn.i, 0 - 1, fn.i + 1)
    /\ UNCHANGED <<mx, sy, sc, pc, wk, ch, reg, sink, hist, build>>

\* presym == 16: fails when i == 0, else reads lens[i - 1] and writes six
\* entries
LensRepeatPrevious ==
    /\ fn.phase = "expand" /\ fn.i < fn.total
    /\ \E extra \in 0..3 :
          IF fn.i = 0 THEN fn' = [fn EXCEPT !.phase = "fail", !.presym = 16]
          ELSE LensTurn(16, fn.i, fn.i + 5, fn.i - 1, fn.i + RepeatPrevious(extra))
    /\ UNCHANGED <<mx, sy, sc, pc, wk, ch, reg, sink, hist, build>>

\* presym == 17: writes ten zeroes
LensRepeatZeroShort ==
    /\ fn.phase = "expand" /\ fn.i < fn.total
    /\ \E extra \in 0..7 :
          LensTurn(17, fn.i, fn.i + 9, 0 - 1, fn.i + RepeatZeroShort(extra))
    /\ UNCHANGED <<mx, sy, sc, pc, wk, ch, reg, sink, hist, build>>

\* presym == 18: memset of rep_count zeroes
LensRepeatZeroLong ==
    /\ fn.phase = "expand" /\ fn.i < fn.total
    /\ \E extra \in LongRepeatFields :
          LensTurn(18, fn.i, fn.i + RepeatZeroLong(extra) - 1, 0 - 1,
                   fn.i + RepeatZeroLong(extra))
    /\ UNCHANGED <<mx, sy, sc, pc, wk, ch, reg, sink, hist, build>>

\* the loop ends; the decode tables are built from lens
LensDone ==
    /\ fn.phase = "expand" /\ fn.i >= fn.total
    /\ fn' = [fn EXCEPT !.phase = "build"]
    /\ UNCHANGED <<mx, sy, sc, pc, wk, ch, reg, sink, hist, build>>

NextLens ==
    LensExplicit \/ LensRepeatPrevious \/ LensRepeatZeroShort \/ LensRepeatZeroLong
        \/ LensDone

SpecLens == InitLens /\ [][NextLens]_vars

\* C34: every index of lens that a turn of the loop writes or reads is
\* inside the array.
C34_LensWritesInside ==
    fn.phase \in {"expand", "build"} =>
        /\ fn.lo >= 0 /\ fn.hi < lens_size
        /\ fn.read >= 0 - 1 /\ fn.read < lens_size

\* The worst case: 138 zeroes asked for when one length of the largest
\* header is left; the last entry of the array is written.
C34_Witness ==
    /\ fn.presym = 18 /\ fn.lo = DEFLATE_NUM_LITLEN_SYMS + DEFLATE_NUM_OFFSET_SYMS - 1
    /\ fn.hi = lens_size - 1

\* The six entries of presym 16 written when one length is left.
C34_WitnessShortRepeat ==
    /\ fn.presym = 16 /\ fn.lo = fn.total - 1 /\ fn.hi = fn.total + 4

(***************************************************************************)
(* C35: the table built by context_to_lkt and the context resolved with it. *)
(***************************************************************************)
\* the entries of the offset map that context_to_lkt reads:
\* "for (; i < total_available_symbols; i++) ... lkt[i]"
context_to_lkt_reads == first_backref_symbol..(total_available_symbols - 1)

\* the entries the last successful compress_backref_symbols wrote
CompressWrote(t) == first_backref_symbol..(wk[t].allocated - 1)

\* the context worker t received from its upstream for the table
UpstreamContext(t) == hist.received[t - 1][Len(hist.received[t - 1])].context

\* Worker t holds the table context_to_lkt returned.
TableBuilt(t) == t \in RandomAccess /\ pc[t] = "publish"

\* Worker t has rewritten and published its context.
ContextResolved(t) == t \in RandomAccess /\ pc[t] = "write"

LktIsIdentityAndResolves(t) ==
    /\ \A c \in 0..(first_backref_symbol - 1) : wk[t].clkt[c] = c
    /\ \A c \in CompressWrote(t) : wk[t].clkt[c] = UpstreamContext(t)[wk[t].lkt[c] + 1]

PublishedIsResolved(t) ==
    \A i \in 1..context_size :
        LET c == hist.published[t][Len(hist.published[t])].context[i]
        IN  c >= min_value /\ c <= max_value

\* C35: the table is the identity on the resolved symbols and maps every
\* allocated code to the symbol of the upstream context at its offset; it is
\* built from entries of the offset map that the compress call wrote; the
\* published context holds resolved bytes only.
C35_LktBuiltFromAllocatedCodes ==
    \A t \in 1..(MaxWorkers - 1) :
        /\ TableBuilt(t) =>
              (LktIsIdentityAndResolves(t) /\ context_to_lkt_reads \subseteq CompressWrote(t))
        /\ ContextResolved(t) => PublishedIsResolved(t)

(***************************************************************************)
(* SpecChunk: the sizes libdeflate_gzip_decompress derives from the input  *)
(* size and the requested thread count, with the proportions of the source *)
(* and 1 MiB as the unit: one more thread per 2 MiB of input               *)
(* (in_nbytes >> 21), 32 MiB of section per thread (32ull << 20), 4 MiB    *)
(* more for the first chunk (1UL << 22).  The gzip header and footer are   *)
(* below the unit.  size_t arithmetic wraps at size_modulus.               *)
(***************************************************************************)
MaxInputMiB == 70
MaxThreadsArg == 4

input_mib_per_thread == 2
section_mib_per_thread == 32
first_chunk_delta_mib == 4

\* gzip_decompress.hpp: from "nthreads = std::min(...)" to "chunk_size = ..."
chunk_plan(size, nthreads_req) ==
    LET n == Min({1 + (size \div input_mib_per_thread), nthreads_req})
        max_section == n * section_mib_per_thread
        section0 == Min({max_section, size})
        sections == (size + section0 - 1) \div section0
        section == size \div sections
        chunk0 == section \div n
        first == chunk0 + first_chunk_delta_mib
    IN  [nthreads |-> n, in_size |-> size, n_sections |-> sections,
         section_size |-> section, chunk_size0 |-> chunk0, first_chunk_size |-> first,
         chunk_size |-> IF n > 1 THEN size_t(n * chunk0 - first) \div (n - 1) ELSE 0]

\* "chunk_offset_start = first_chunk_size + chunk_size * (chunk_idx - 1)" and
\* "chunk_offset_stop = first_chunk_size + chunk_size * chunk_idx"; chunk 0
\* runs from the start of the section (or the resume position) on.
plan_offset_start(p, chunk_idx) ==
    IF chunk_idx = 0 THEN 0
    ELSE size_t(p.first_chunk_size + p.chunk_size * (chunk_idx - 1))
plan_offset_stop(p, chunk_idx) ==
    IF chunk_idx = 0 THEN p.first_chunk_size
    ELSE size_t(p.first_chunk_size + p.chunk_size * chunk_idx)

InitChunk ==
    /\ fn \in {[phase |-> "call", in_size |-> z, nthreads_req |-> n, plan |-> <<>>]
                : z \in 1..MaxInputMiB, n \in 1..MaxThreadsArg}
    /\ OthersIdleMatch

ChunkPlan ==
    /\ fn.phase = "call"
    /\ fn' = [fn EXCEPT !.phase = "ret", !.plan = chunk_plan(fn.in_size, fn.nthreads_req)]
    /\ UNCHANGED <<mx, sy, sc, pc, wk, ch, reg, sink, hist, build>>

NextChunk == ChunkPlan

SpecChunk == InitChunk /\ [][NextChunk]_vars

\* C36: when more than one worker is started, the chunk sizes are computed
\* without wrap-around, the chunks of a section follow one another without
\* overlap and end at or before the section end, and every chunk starts
\* inside the stream.
C36_ChunksPartitionSection ==
    (fn.phase = "ret" /\ fn.plan.nthreads > 1) =>
        LET p == fn.plan
        IN  /\ p.nthreads * p.chunk_size0 >= p.first_chunk_size
            /\ \A i \in 0..(p.nthreads - 1) :
                  /\ plan_offset_start(p, i) <= plan_offset_stop(p, i)
                  /\ i > 0 => plan_offset_start(p, i) = plan_offset_stop(p, i - 1)
                  /\ plan_offset_stop(p, i) <= p.section_size
                  /\ \A s \in 0..(p.n_sections - 1) :
                        s * p.section_size + plan_offset_start(p, i) < p.in_size


(***************************************************************************)
(* C37: the stop position of a chunk and its reset.                        *)
(***************************************************************************)
\* "section_offset + chunk_offset_stop" of chunk t of section s, in bits:
\* where the sync of the next chunk starts, and the stop the last chunk
\* sets itself.
chunk_stop_bits(t, s) == 8 * (s * section_size + chunk_offset_stop(t))

\* The section whose chunk t a stop position p was published for.
StopSection(t, p) ==
    IF p < chunk_stop_bits(t, 0) THEN 0 - 1
    ELSE CHOOSE s \in 0..(n_sections - 1) :
             /\ chunk_stop_bits(t, s) <= p
             /\ \A s2 \in (s + 1)..(n_sections - 1) : p < chunk_stop_bits(t, s2)

\* Thread t is inside one of the decompress_loop calls of go().
InDecompressLoop(t) == pc[t] \in {"loop", "wide", "borrow_wait", "narrow"}

\* Thread t has not yet entered the decompress_loop calls of its chunk.
BeforeDecompressLoop(t) ==
    pc[t] \in {"start", "barrier", "go", "sync", "get_prev", "init_ctx"}

\* Thread t is in go() past the decompress_loop calls of its chunk, its
\* section_idx not yet incremented.
AfterDecompressLoop(t) ==
    pc[t] \in {"post", "short_wait", "get_ctx", "borrowing", "publish", "write"}

\* This step stores a stop position into worker t with set_end_block.
StopPublished(t) ==
    /\ ch'[t].stop_after # ch[t].stop_after
    /\ ch'[t].stop_after # unset_stop_pos

\* This step is the reset "_stop_after.store(unset_stop_pos)" of worker t.
StopReset(t) ==
    /\ ch[t].stop_after # unset_stop_pos
    /\ ch'[t].stop_after = unset_stop_pos

\* The stop published in this step finds worker t before or inside the
\* decompress_loop calls of the chunk it is addressed to, or past those of
\* the chunk before it.
PublishedInTime(t) ==
    LET s == StopSection(t, ch'[t].stop_after)
    IN  \/ wk[t].section_idx = s /\ (BeforeDecompressLoop(t) \/ InDecompressLoop(t))
        \/ wk[t].section_idx = s - 1 /\ AfterDecompressLoop(t)

\* The stop reset in this step was published for the chunk being decoded.
ResetIsOfThisChunk(t) == StopSection(t, ch[t].stop_after) = wk[t].section_idx

\* C37: every stop position published with set_end_block reaches its worker
\* before that worker has left the decode loops of the chunk the stop is
\* addressed to and not while it decodes an earlier chunk, and the reset at
\* the end of a chunk only clears a stop published for that very chunk.
C37_StopIsObserved ==
    [][\A t \in 0..(MaxWorkers - 1) : t \in Workers =>
          /\ StopPublished(t) => PublishedInTime(t)
          /\ StopReset(t) => ResetIsOfThisChunk(t)]_vars

\* The second half of C37 alone: the reset clears no stop of another chunk.
ResetClearsOwnStop ==
    [][\A t \in 0..(MaxWorkers - 1) :
          (t \in Workers /\ StopReset(t)) => ResetIsOfThisChunk(t)]_vars

\* A stop read by a worker inside decompress_loop is one of its chunk.
NoStaleStop ==
    \A t \in 0..(MaxWorkers - 1) :
        (t \in Workers /\ InDecompressLoop(t) /\ ch[t].stop_after # unset_stop_pos)
            => StopSection(t, ch[t].stop_after) = wk[t].section_idx
(***************************************************************************)
(* C38: the worker pointers of the shared registry.                        *)
(***************************************************************************)
\* The worker thread t calls through a registry pointer: its upstream
\* "deflate_threads[chunk_idx - 1]", or "deflate_threads[nthreads - 1]" for
\* the first chunk.
RegistryPointer(t) == IF t = 0 THEN LastWorker ELSE t - 1

\* go() of a later section is still ahead of thread t.
MoreSections(t) == wk[t].section_idx + 1 < n_sections

\* Thread t can still make a call through its registry pointer: the
\* set_end_block of sync(), get_context(), or the release of the locked_span
\* that get_context() returned.
CanStillCall(t) ==
    IF t = 0
    THEN \/ pc[0] \in {"get_prev", "init_ctx"}
         \/ pc[0] \in {"start", "barrier", "go", "loop", "post"} /\ MoreSections(0)
    ELSE \/ pc[t] \in {"start", "barrier", "sync", "wide", "borrow_wait", "narrow",
                       "get_ctx", "borrowing"}
         \/ pc[t] \in {"short_wait", "publish", "write"} /\ MoreSections(t)

\* Thread t is past the start barrier of its thread function.
PastBarrier(t) == pc[t] \notin {"start", "barrier"}

\* C38: a worker that is past the barrier finds all the workers registered,
\* and a worker is not destroyed as long as the thread that holds its
\* pointer can still call set_end_block or get_context on it.
C38_RegistryPointersAreAlive ==
    \A t \in 0..(MaxWorkers - 1) : t \in Workers =>
        /\ PastBarrier(t) => reg.deflate_threads = Workers
        /\ CanStillCall(t) => ~wk[RegistryPointer(t)].freed

\* C38 in the runs in which no assertion has failed.
AliveUnlessAsserted == hist.asserts = {} => C38_RegistryPointersAreAlive
(***************************************************************************)
(* C40: which worker decodes which block.  hist.decoded[t] holds the bit   *)
(* positions of the blocks worker t has decoded into its window in a       *)
(* decompress_loop; the blocks sync() parses into its DummyWindow are not  *)
(* decoded for output.                                                     *)
(***************************************************************************)
\* the bit positions at which the blocks of the stream start, from p on
RECURSIVE BlockStartsFrom(_)
BlockStartsFrom(p) ==
    IF p >= StreamSizeBits(TheStream) THEN {}
    ELSE {p} \cup BlockStartsFrom(p + BlockAt(TheStream, p).len)

BlockStarts == BlockStartsFrom(0)

\* the workers that have decoded the block at p
DecodersOf(p) == {t \in Workers : p \in hist.decoded[t]}

\* "stop" of the last chunk of the last section, in bits
NominalEnd == chunk_stop_bits(LastWorker, n_sections - 1)

\* C40: no block is decoded by two workers, and once every worker has
\* finished each block of the stream, up to the final one, has been decoded
\* by a worker, the blocks that start at or after the end of the last chunk
\* of the last section included.
C40_EachBlockDecodedOnce ==
    /\ \A p \in BlockStarts : Cardinality(DecodersOf(p)) <= 1
    /\ AllDone => \A p \in BlockStarts : DecodersOf(p) # {}

\* The first half of C40 alone.
NoBlockDecodedTwice == \A p \in BlockStarts : Cardinality(DecodersOf(p)) <= 1

\* The second half of C40 in the runs in which no assertion has failed.
AllBlocksDecoded ==
    (AllDone /\ hist.asserts = {}) => \A p \in BlockStarts : DecodersOf(p) # {}

\* The second half for the blocks that start before the end of the last
\* chunk of the last section.
BlocksBeforeNominalEndDecoded ==
    (AllDone /\ hist.asserts = {}) =>
        \A p \in BlockStarts : p < NominalEnd => DecodersOf(p) # {}

(***************************************************************************)
(* SpecBits: do_block at the level of the bit buffer, on a DummyWindow as  *)
(* sync() runs it.  A reader is the InputStream together with              *)
(*   unmet   the operations among bits, remove_bits and pop_bits that were *)
(*           called with fewer than n bits in the buffer, in call order    *)
(* The blocks are stored blocks, blocks of the static Huffman code and of  *)
(* the reserved type, and dynamic Huffman headers up to the precode; the   *)
(* inputs hold no dynamic block whose precode is accepted, and the code    *)
(* length expansion that follows it is outside this specification.         *)
(***************************************************************************)
PRECODE_TABLEBITS == 7
LITLEN_TABLEBITS == 10
OFFSET_TABLEBITS == 8
DEFLATE_MAX_LITLEN_CODEWORD_LEN == 15
DEFLATE_NUM_PRECODE_SYMS == 19

Reader(s) == [s |-> s, unmet |-> <<>>]

\* "assert(bitsleft >= n)" of the operation called name
Precondition(r, n, name) ==
    [r EXCEPT !.unmet = IF r.s.bitsleft >= n THEN @ ELSE Append(@, name)]

\* ensure_bits<n>() with its result dropped, as the decode loops call it
reader_ensure_bits(r, n) == [r EXCEPT !.s = ensure_bits(r.s, n).s]

\* bits(n): the value, and the reader after the precondition was evaluated
reader_bits(r, n) == [v |-> bits(r.s, n), r |-> Precondition(r, n, "bits")]

\* remove_bits(n)
reader_remove_bits(r, n) ==
    [Precondition(r, n, "remove_bits") EXCEPT !.s = remove_bits(r.s, n)]

\* pop_bits(n): bits(n), then remove_bits(n)
reader_pop_bits(r, n) ==
    [v |-> bits(r.s, n),
     r |-> [Precondition(r, n, "pop_bits") EXCEPT !.s = remove_bits(r.s, n)]]

\* The first n bits of the buffer read as a codeword, first bit first.
RECURSIVE Codeword(_, _)
Codeword(s, n) == IF n = 0 THEN 0 ELSE 2 * Codeword(s, n - 1) + s.bitbuf[n - 1]

\* litlen_decode_table[bits(LITLEN_TABLEBITS)] of static_decompressor: the
\* symbol and the length of its codeword.  prepare_static gives length 8
\* to symbols 0..143, 9 to 144..255, 7 to 256..279 and 8 to 280..287.
static_litlen_entry(s) ==
    IF Codeword(s, 7) < 24 THEN [sym |-> 256 + Codeword(s, 7), len |-> 7]
    ELSE IF Codeword(s, 8) < 192 THEN [sym |-> Codeword(s, 8) - 48, len |-> 8]
    ELSE IF Codeword(s, 8) < 200 THEN [sym |-> 280 + Codeword(s, 8) - 192, len |-> 8]
    ELSE [sym |-> 144 + Codeword(s, 9) - 400, len |-> 9]

\* offset_decode_table[bits(OFFSET_TABLEBITS)] of static_decompressor: every
\* offset symbol has a codeword of 5 bits
static_offset_entry(s) == [sym |-> Codeword(s, 5), len |-> 5]

\* litlen_decode_results for the symbols 256..287: length base and number
\* of extra bits; the end of block has length 0
length_base ==
    <<0, 3, 4, 5, 6, 7, 8, 9, 10, 11, 13, 15, 17, 19, 23, 27, 31, 35, 43, 51, 59,
      67, 83, 99, 115, 131, 163, 195, 227, 258, 258, 258>>
length_extra_bits ==
    <<0, 0, 0, 0, 0, 0, 0, 0, 0, 1, 1, 1, 1, 2, 2, 2, 2, 3, 3, 3, 3,
      4, 4, 4, 4, 5, 5, 5, 5, 0, 0, 0>>

\* offset_decode_results: offset base and number of extra bits
offset_base ==
    <<1, 2, 3, 4, 5, 7, 9, 13, 17, 25, 33, 49, 65, 97, 129, 193, 257, 385, 513, 769,
      1025, 1537, 2049, 3073, 4097, 6145, 8193, 12289, 16385, 24577, 32769, 49153>>
offset_extra_bits ==
    <<0, 0, 0, 0, 1, 1, 2, 2, 3, 3, 4, 4, 5, 5, 6, 6, 7, 7, 8, 8,
      9, 9, 10, 10, 11, 11, 12, 12, 13, 13, 14, 14>>

deflate_precode_lens_permutation ==
    <<16, 17, 18, 0, 8, 7, 9, 6, 10, 5, 11, 4, 12, 3, 13, 2, 14, 1, 15>>

\* One turn of "for (;;)" in do_block with cur_d = &static_decompressor.
\* res is "" when the loop goes on.
static_codeword(r0, size, success) ==
    LET Ret(res, r, sz) == [res |-> res, r |-> r, size |-> sz]
        Copied(m, r) == Ret(IF m.ok THEN "" ELSE "INVALID_MATCH", r, m.size)
        Offset(length, e, r) ==
            LET Popped(x) == Copied(DummyCopyMatch(size, length, offset_base[e.sym + 1] + x.v),
                                    x.r)
            IN  Popped(reader_pop_bits(reader_remove_bits(r, e.len),
                                       offset_extra_bits[e.sym + 1]))
        Length(x, base) ==
            IF base + x.v = HUFFDEC_END_OF_BLOCK_LENGTH THEN Ret(success, x.r, size)
            ELSE Offset(base + x.v, static_offset_entry(x.r.s),
                        reader_bits(x.r, OFFSET_TABLEBITS).r)
        Pushed(p, r) == Ret(IF p.ok THEN "" ELSE "INVALID_LITERAL", r, p.size)
        Entry(e, r) ==
            IF e.sym < 256 THEN Pushed(DummyPush(size, e.sym), r)
            ELSE Length(reader_pop_bits(reader_ensure_bits(r, bitbuf_max_ensure),
                                        length_extra_bits[e.sym - 255]),
                        length_base[e.sym - 255])
        Looked(e, r) == Entry(e, reader_remove_bits(r, e.len))
        Ensured(r) == Looked(static_litlen_entry(r.s), reader_bits(r, LITLEN_TABLEBITS).r)
    IN  Ensured(reader_ensure_bits(r0, DEFLATE_MAX_LITLEN_CODEWORD_LEN))

\* prepare_dynamic up to "Read the precode codeword lengths": the three
\* counts, then ensure_bits<DEFLATE_NUM_PRECODE_SYMS * 3>()
prepare_dynamic_counts(r0) ==
    LET Counts(hlit, hdist, hclen) ==
            [r |-> reader_ensure_bits(hclen.r, DEFLATE_NUM_PRECODE_SYMS * 3),
             num_explicit_precode_lens |-> hclen.v + 4]
        Dist(hlit, hdist) == Counts(hlit, hdist, reader_pop_bits(hdist.r, 4))
        Lit5(hlit) == Dist(hlit, reader_pop_bits(hlit.r, 5))
    IN  Lit5(reader_pop_bits(r0, 5))

\* "precode_lens[deflate_precode_lens_permutation[i]] = pop_bits(3)"
precode_len(r, lens, i) ==
    LET Popped(x) ==
            [r |-> x.r,
             lens |-> [lens EXCEPT ![deflate_precode_lens_permutation[i + 1] + 1] = x.v]]
    IN  Popped(reader_pop_bits(r, 3))

\* build_precode_decode_table: "tables" when the precode is accepted
build_precode_decode_table(lens) ==
    IF build_decode_table(lens, PRECODE_TABLEBITS) = "false"
    THEN "INVALID_DYNAMIC_HT" ELSE "tables"

\* do_block up to the decode loop: the header, and the whole block when it
\* is stored.  res is "" when the decode loop of a static block follows and
\* "dynamic" when prepare_dynamic does.
do_block_header(r0, size) ==
    LET Ret(res, r, sz, success) == [res |-> res, r |-> r, size |-> sz, success |-> success]
        Stored(success, u, unmet) ==
            Ret(IF u.ok THEN success ELSE "INVALID_UNCOMPRESSED_BLOCK",
                [s |-> [u.s EXCEPT !.bad = @ \/ u.bad], unmet |-> unmet], u.win.size, success)
        Type(success, t) ==
            IF t.v = DEFLATE_BLOCKTYPE_DYNAMIC_HUFFMAN
            THEN Ret("dynamic", t.r, size, success)
            ELSE IF t.v = DEFLATE_BLOCKTYPE_UNCOMPRESSED
            THEN Stored(success, do_uncompressed(ADummyWindow(size), t.r.s), t.r.unmet)
            ELSE IF t.v = DEFLATE_BLOCKTYPE_STATIC_HUFFMAN
            THEN Ret("", t.r, size, success)
            ELSE Ret("INVALID_BLOCK_TYPE", t.r, size, success)
        Final(b) == Type(IF b.v # 0 THEN "LAST_BLOCK" ELSE "SUCCESS", reader_pop_bits(b.r, 2))
        Ensured(e) ==
            IF ~e.ok THEN Ret("NOT_ENOUGH_INPUT", [r0 EXCEPT !.s = e.s], size, "")
            ELSE Final(reader_pop_bits([r0 EXCEPT !.s = e.s], 1))
    IN  Ensured(ensure_bits(r0.s, block_header_bits))

MaxBitsCalls == 3

\* the bits of a codeword of len bits, first bit first
RECURSIVE CodeBits(_, _)
CodeBits(code, len) ==
    IF len = 0 THEN <<>> ELSE Append(CodeBits(code \div 2, len - 1), code % 2)

\* the bits of a field of n bits, low bit first
RECURSIVE FieldBits(_, _)
FieldBits(v, n) == IF n = 0 THEN <<>> ELSE <<v % 2>> \o FieldBits(v \div 2, n - 1)

\* the codeword of a litlen symbol in the static code
StaticLitlenBits(sym) ==
    IF sym < 144 THEN CodeBits(48 + sym, 8)
    ELSE IF sym < 256 THEN CodeBits(400 + sym - 144, 9)
    ELSE IF sym < 280 THEN CodeBits(sym - 256, 7)
    ELSE CodeBits(192 + sym - 280, 8)

HeaderBits(bfinal, btype) == <<bfinal>> \o FieldBits(btype, 2)
EndOfBlockBits == StaticLitlenBits(256)

\* a match of the static code: length symbol, extra length bits, offset
\* symbol, extra offset bits
StaticMatchBits(lsym, lextra, osym, oextra) ==
    StaticLitlenBits(lsym) \o FieldBits(lextra, length_extra_bits[lsym - 255])
        \o CodeBits(osym, 5) \o FieldBits(oextra, offset_extra_bits[osym + 1])

RECURSIVE Literals(_, _)
Literals(c, n) == IF n = 0 THEN <<>> ELSE StaticLitlenBits(c) \o Literals(c + 1, n - 1)

\* bytes of a bit sequence, low bit first, the last byte padded with zeroes
PackBits(b) ==
    [j \in 1..((Len(b) + 7) \div 8) |->
        LET Bit(i) == IF 8 * (j - 1) + i + 1 <= Len(b) THEN b[8 * (j - 1) + i + 1] ELSE 0
        IN  Bit(0) + 2 * Bit(1) + 4 * Bit(2) + 8 * Bit(3) + 16 * Bit(4) + 32 * Bit(5)
              + 64 * Bit(6) + 128 * Bit(7)]

\* whole blocks: static Huffman blocks with literals and matches, two
\* blocks of more than a machine word, a block of the reserved type
BitsBlocks ==
    {HeaderBits(1, 1) \o Literals(65, 2) \o EndOfBlockBits,
     HeaderBits(1, 1) \o Literals(65, 1) \o StaticMatchBits(257, 0, 0, 0) \o EndOfBlockBits,
     HeaderBits(1, 1) \o Literals(65, 1) \o StaticMatchBits(265, 1, 4, 1) \o EndOfBlockBits,
     HeaderBits(0, 1) \o Literals(65, 9) \o EndOfBlockBits
         \o HeaderBits(1, 1) \o Literals(97, 1) \o EndOfBlockBits,
     HeaderBits(1, 3)}

\* a dynamic Huffman block that ends in its precode lengths: HLIT 0, HDIST
\* 0, HCLEN 15, three lengths of 1
BitsDynamicHeader ==
    HeaderBits(1, 2) \o FieldBits(0, 5) \o FieldBits(0, 5) \o FieldBits(15, 4)
        \o FieldBits(1, 3) \o FieldBits(1, 3) \o FieldBits(1, 3)

\* every whole block sequence and the same cut short after each of its
\* bytes, the dynamic header with its last byte and without, a stored block
BitsStreams ==
    UNION {{SubSeq(PackBits(b), 1, n) : n \in 1..((Len(b) + 7) \div 8)} : b \in BitsBlocks}
        \cup {PackBits(BitsDynamicHeader),
              SubSeq(PackBits(BitsDynamicHeader), 1, 3),
              <<HeaderByte(1, 0), 1, 0, 254, 255, 66>>}

InitBits ==
    /\ fn \in {[phase |-> "header", r |-> Reader(NewInputStream(in, o)), size |-> 0,
                 res |-> "", success |-> "", calls |-> 0, codewords |-> 0,
                 lens |-> <<>>, i |-> 0, num_explicit_precode_lens |-> 0]
                : in \in BitsStreams, o \in {0, 255}}
    /\ build \in {"debug", "ndebug"}
    /\ OthersIdleBlk

\* A step of do_block that left the reader r: the first failed assertion
\* ends the debug build.  When an assertion of another operation failed in
\* the step as well, the one that ended it is not told apart and no unmet
\* precondition is recorded.
BitsStep(r, next) ==
    IF (r.unmet # <<>> \/ r.s.bad) /\ build = "debug"
    THEN [fn EXCEPT !.phase = "abort", !.res = "ABORT",
                    !.r.unmet = IF r.s.bad THEN @ ELSE <<r.unmet[1]>>]
    ELSE next

\* do_block from its first statement to the decode loop or its return.
BitsHeader ==
    /\ fn.phase = "header"
    /\ \E h \in {do_block_header(fn.r, fn.size)} :
           fn' = BitsStep(h.r,
                          [fn EXCEPT !.phase = IF h.res = "" THEN "loop"
                                               ELSE IF h.res = "dynamic" THEN "counts"
                                               ELSE "ret",
                                     !.r = h.r, !.size = h.size, !.res = h.res,
                                     !.success = h.success, !.calls = @ + 1])
    /\ UNCHANGED <<mx, sy, sc, pc, wk, ch, reg, sink, hist, build>>

\* prepare_dynamic: the codeword length counts.
BitsCounts ==
    /\ fn.phase = "counts"
    /\ \E c \in {prepare_dynamic_counts(fn.r)} :
           fn' = BitsStep(c.r,
                          [fn EXCEPT !.phase = "precode", !.r = c.r, !.i = 0,
                                     !.lens = [i \in 1..DEFLATE_NUM_PRECODE_SYMS |-> 0],
                                     !.num_explicit_precode_lens =
                                         c.num_explicit_precode_lens])
    /\ UNCHANGED <<mx, sy, sc, pc, wk, ch, reg, sink, hist, build>>

\* prepare_dynamic: one turn of the loop over the explicit precode lengths,
\* and after the last one build_precode_decode_table.
BitsPrecode ==
    /\ fn.phase = "precode"
    /\ IF fn.i < fn.num_explicit_precode_lens
       THEN \E p \in {precode_len(fn.r, fn.lens, fn.i)} :
                fn' = BitsStep(p.r, [fn EXCEPT !.r = p.r, !.lens = p.lens, !.i = @ + 1])
       ELSE fn' = [fn EXCEPT !.phase = "ret", !.res = build_precode_decode_table(fn.lens)]
    /\ UNCHANGED <<mx, sy, sc, pc, wk, ch, reg, sink, hist, build>>

\* One turn of the decode loop of a static block.
BitsCodeword ==
    /\ fn.phase = "loop"
    /\ \E c \in {static_codeword(fn.r, fn.size, fn.success)} :
           fn' = BitsStep(c.r,
                          [fn EXCEPT !.phase = IF c.res = "" THEN "loop" ELSE "ret",
                                     !.r = c.r, !.size = c.size, !.res = c.res,
                                     !.codewords = @ + 1])
    /\ UNCHANGED <<mx, sy, sc, pc, wk, ch, reg, sink, hist, build>>

\* The caller's loop: after SUCCESS the next block is parsed.
BitsAgain ==
    /\ fn.phase = "ret" /\ fn.res = "SUCCESS"
    /\ fn.calls < MaxBitsCalls
    /\ fn' = [fn EXCEPT !.phase = "header"]
    /\ UNCHANGED <<mx, sy, sc, pc, wk, ch, reg, sink, hist, build>>

NextBits == BitsHeader \/ BitsCounts \/ BitsPrecode \/ BitsCodeword \/ BitsAgain

SpecBits == InitBits /\ [][NextBits]_vars

\* C39: no bits(n), remove_bits(n) or pop_bits(n) call of do_block is made
\* with fewer than n bits in the bit buffer, on any input, truncated or not.
C39_BitPreconditionsHold == fn.r.unmet = <<>>

\* The input of the run is a whole sequence of blocks, not one cut short.
WholeInput == \E b \in BitsBlocks : fn.r.s.in = PackBits(b)

\* C39 on the inputs that are not cut short: every precondition holds.
PreconditionsHoldOnWholeInput == WholeInput => C39_BitPreconditionsHold

\* No run of SpecBits reaches the code length expansion of a dynamic block.
PrecodeRejected == fn.res # "tables"
====
